---------------------------- MODULE Spec2Model ----------------------------
(***************************************************************************)
(* A model of the Avito monitor: the page fetcher with its retry loop, the *)
(* per-listing field extractor, the paginator that drives both, and the    *)
(* price analyzer.                                                         *)
(*                                                                         *)
(* Texts are sequences of tokens.  A token is one character (a digit, a    *)
(* dot, a comma, a whitespace character, a letter) or a word: a run of     *)
(* letters that the code never looks into.  The source's Cyrillic literals *)
(* are written in Latin transliteration.  An optional value (Python's      *)
(* None or a value) is a sequence of length 0 or 1.                        *)
(***************************************************************************)
EXTENDS Integers, Sequences, FiniteSets, TLC

VARIABLES
    max_retries,   \* AvitoParser.max_retries
    delay,         \* AvitoParser.delay, in seconds
    limit,         \* the limit argument of the running call
    pc,            \* control point of the running call
    all_items,     \* parse_search_page: all_items
    page_num,      \* parse_search_page: page_num
    items_count,   \* parse_search_page: items_count
    html_content,  \* parse_search_page: html_content (optional page body)
    idx,           \* parse_search_page: position of the for loop in items
    attempt,       \* _make_request: the loop variable attempt
    requests,      \* _make_request: the number of session.get calls of the call
    caught,        \* _make_request: the exception caught last in the call
    sleeps,        \* _make_request: the time.sleep arguments of the call, in ticks
    crawl_log,     \* one entry per page requested: page, count at the request, what came back
    pause,         \* parse_search_page: the inter-page time.sleep just taken, in ticks
    result,        \* the value returned by the finished call
    fragment,      \* extractor runs: the listing fragment handed to _parse_item
    data,          \* analyzer runs: the record set handed to the analyzer
    z_threshold,   \* analyzer runs: find_outliers' z_threshold
    previous_data, \* analyzer runs: the record set of an earlier crawl
    csv_file,      \* CSVStorage: the file of the storage directory (optional)
    args,          \* main: the command-line arguments
    events,        \* what the running call has done so far, in order
    url,           \* parse_search_page: url
    local_first    \* parse_search_page: local_first

vars == <<max_retries, delay, limit, pc, all_items, page_num, items_count,
          html_content, idx, attempt, requests, caught, sleeps, crawl_log,
          pause, result, fragment, data, z_threshold, previous_data, csv_file, args, events,
          url, local_first>>

crawl_vars == <<max_retries, delay, limit, all_items, page_num, items_count,
                html_content, idx, attempt, requests, caught, sleeps, crawl_log,
                pause>>

-----------------------------------------------------------------------------
(* Bounds of the model *)

MaxRetries == 4
MaxDelay == 2
MaxLimit == 101
MaxPageLen == 51
TicksPerSec == 2
MaxRecords == 5

-----------------------------------------------------------------------------
(* Python values *)

None == <<>>

\* main has not been called
NoArgs == [url |-> FALSE, compare |-> FALSE]

Some(x) == <<x>>

\* a or b or c, on optional values
FirstSome(opts) ==
    IF \E i \in DOMAIN opts : opts[i] # None
    THEN opts[CHOOSE i \in DOMAIN opts :
                 opts[i] # None /\ \A j \in 1..(i - 1) : opts[j] = None]
    ELSE None

DecimalDigits == {"0", "1", "2", "3", "4", "5", "6", "7", "8", "9"}

\* str.isdigit: the decimal digits and digit characters such as SUPERSCRIPT TWO ("^2")
IsDigit(c) == c \in DecimalDigits \cup {"^2"}

\* what the regex class \s and str.strip take for whitespace
IsSpace(c) == c \in {" ", "\t"}

RECURSIVE LStrip(_)
LStrip(t) == IF t # <<>> /\ IsSpace(Head(t)) THEN LStrip(Tail(t)) ELSE t

RECURSIVE RStrip(_)
RStrip(t) ==
    IF t # <<>> /\ IsSpace(t[Len(t)]) THEN RStrip(SubSeq(t, 1, Len(t) - 1)) ELSE t

\* str.strip()
Strip(t) == RStrip(LStrip(t))

\* str.lower(), on the vocabulary of the model
LowerToken(c) ==
    CASE c = "Dostavka" -> "dostavka"
      [] c = "DOSTAVKA" -> "dostavka"
      [] c = "Moskva" -> "moskva"
      [] OTHER -> c

Lower(t) == [i \in DOMAIN t |-> LowerToken(t[i])]

\* word in text
Contains(t, word) == \E i \in DOMAIN t : t[i] = word

\* str.replace(c, '')
RECURSIVE Remove(_, _)
Remove(t, c) ==
    IF t = <<>> THEN <<>>
    ELSE IF Head(t) = c THEN Remove(Tail(t), c)
    ELSE <<Head(t)>> \o Remove(Tail(t), c)

RECURSIVE StripLeadingZeros(_)
StripLeadingZeros(t) ==
    IF t # <<>> /\ Head(t) = "0" THEN StripLeadingZeros(Tail(t)) ELSE t

RECURSIVE StripTrailingZeros(_)
StripTrailingZeros(t) ==
    IF t # <<>> /\ t[Len(t)] = "0"
    THEN StripTrailingZeros(SubSeq(t, 1, Len(t) - 1)) ELSE t

DigitValue(c) == CHOOSE n \in 0..9 : <<"0", "1", "2", "3", "4", "5", "6", "7", "8", "9">>[n + 1] = c

\* lexicographic t >= u on digit texts of equal length
RECURSIVE DigitsGE(_, _)
DigitsGE(t, u) ==
    IF t = <<>> THEN TRUE
    ELSE IF Head(t) # Head(u) THEN DigitValue(Head(t)) > DigitValue(Head(u))
    ELSE DigitsGE(Tail(t), Tail(u))

\* The first digits of 2^1024 - 2^970: a decimal text rounds to infinity from there on.
DoubleOverflow ==
    <<"1", "7", "9", "7", "6", "9", "3", "1", "3", "4",
      "8", "6", "2", "3", "1", "5", "8", "0", "7", "9">>

\* A whole part (no leading zero) too large for a double: more than 309 digits,
\* or 309 digits that reach DoubleOverflow.
Overflows(whole) ==
    \/ Len(whole) > 309
    \/ /\ Len(whole) = 309
       /\ DigitsGE(SubSeq(whole, 1, Len(DoubleOverflow)), DoubleOverflow)

\* A Python number: py is its type, whole and frac are the decimal digits of its
\* value before and after the point (no leading, no trailing zero), inf marks
\* the float infinity.
IntZero == [py |-> "int", whole |-> <<>>, frac |-> <<>>, inf |-> FALSE]

Float(whole, frac) ==
    LET w == StripLeadingZeros(whole) IN
    IF Overflows(w)
    THEN [py |-> "float", whole |-> <<>>, frac |-> <<>>, inf |-> TRUE]
    ELSE [py |-> "float", whole |-> w, frac |-> StripTrailingZeros(frac), inf |-> FALSE]

\* x == 0
IsZero(x) == ~x.inf /\ x.whole = <<>> /\ x.frac = <<>>

IsDecimal(c) == c \in DecimalDigits

IsDot(c) == c = "."

\* float(text): ok is FALSE where Python raises ValueError.  The callers hand
\* over texts without leading or trailing whitespace.
PyFloat(t) ==
    LET dots == Len(SelectSeq(t, IsDot))
        digits == SelectSeq(t, IsDecimal)
        at == IF dots = 1 THEN CHOOSE i \in DOMAIN t : t[i] = "." ELSE Len(t) + 1
    IN  IF \/ dots > 1
           \/ digits = <<>>
           \/ Len(digits) + dots # Len(t)
        THEN [ok |-> FALSE, val |-> IntZero]
        ELSE [ok |-> TRUE,
              val |-> Float(SubSeq(t, 1, at - 1), SubSeq(t, at + 1, Len(t)))]

-----------------------------------------------------------------------------
(* Natural numbers of any size                                             *)
(*                                                                         *)
(* A natural number is the sequence of its digits in base 2^15, the least  *)
(* significant first and the most significant not 0; 0 is the empty        *)
(* sequence.                                                               *)
(***************************************************************************)

\* the one element of a set
TheOne(S) == CHOOSE r \in S : TRUE

Base == 2 ^ 15

\* digit i of a, digit 1 the least significant
Limb(a, i) == IF 1 <= i /\ i <= Len(a) THEN a[i] ELSE 0

\* a without its most significant digits 0
Normal(a) ==
    LET digits == SubSeq(a, 1, Len(a))
    IN SubSeq(digits, 1, CHOOSE n \in 0..Len(digits) :
                            /\ n > 0 => digits[n] # 0
                            /\ \A i \in (n + 1)..Len(digits) : digits[i] = 0)

Longer(a, b) == IF Len(a) < Len(b) THEN Len(b) ELSE Len(a)

\* the carry of a + b into digit i: a digit below i overflows and all the
\* digits between the two pass the carry on
Carry(a, b, i) ==
    IF \E j \in 1..(i - 1) :
          /\ Limb(a, j) + Limb(b, j) >= Base
          /\ \A k \in (j + 1)..(i - 1) : Limb(a, k) + Limb(b, k) = Base - 1
    THEN 1 ELSE 0

BigAdd(a, b) ==
    Normal([i \in 1..(Longer(a, b) + 1) |->
                (Limb(a, i) + Limb(b, i) + Carry(a, b, i)) % Base])

\* what a - b borrows from digit i
Borrow(a, b, i) ==
    IF \E j \in 1..(i - 1) :
          /\ Limb(a, j) < Limb(b, j)
          /\ \A k \in (j + 1)..(i - 1) : Limb(a, k) = Limb(b, k)
    THEN 1 ELSE 0

\* a - b, for a >= b
BigSub(a, b) ==
    Normal([i \in 1..Len(a) |-> (Limb(a, i) - Limb(b, i) - Borrow(a, b, i)) % Base])

BigLess(a, b) ==
    IF Len(a) # Len(b) THEN Len(a) < Len(b)
    ELSE \E i \in 1..Len(a) : a[i] < b[i] /\ \A j \in (i + 1)..Len(a) : a[j] = b[j]

\* a * 2^k
ShiftLeft(a, k) ==
    Normal([i \in 1..(Len(a) + k \div 15 + 1) |->
                ((Limb(a, i - k \div 15) * (2 ^ (k % 15))) % Base)
                    + (Limb(a, i - k \div 15 - 1) \div (2 ^ (15 - (k % 15))))])

\* a \div 2^k
ShiftRight(a, k) ==
    Normal([i \in 1..Len(a) |->
                (Limb(a, i + k \div 15) \div (2 ^ (k % 15)))
                    + (Limb(a, i + k \div 15 + 1) % (2 ^ (k % 15))) * (2 ^ (15 - (k % 15)))])

\* a * 2^k + c, for c below 2^k and k below 15
ShiftIn(a, k, c) ==
    IF a = <<>> THEN Normal(<<c>>)
    ELSE LET shifted == ShiftLeft(a, k)
         IN <<shifted[1] + c>> \o Tail(shifted)

\* the sum of the low halves of the products for digit k and of the high halves
\* of the products for digit k - 1
Column(a, b, k) ==
      ((Limb(a, 1) * Limb(b, k)) % Base) + ((Limb(a, 2) * Limb(b, k - 1)) % Base)
    + ((Limb(a, 3) * Limb(b, k - 2)) % Base) + ((Limb(a, 4) * Limb(b, k - 3)) % Base)
    + ((Limb(a, 1) * Limb(b, k - 1)) \div Base) + ((Limb(a, 2) * Limb(b, k - 2)) \div Base)
    + ((Limb(a, 3) * Limb(b, k - 3)) \div Base) + ((Limb(a, 4) * Limb(b, k - 4)) \div Base)

\* a * b, for a of four digits at most
BigMul(a, b) ==
    BigAdd(Normal([k \in 1..(Len(a) + Len(b)) |-> Column(a, b, k) % Base]),
           Normal([k \in 1..(Len(a) + Len(b) + 1) |->
                      IF k = 1 THEN 0 ELSE Column(a, b, k - 1) \div Base]))

\* the number of bits of a digit n that is not 0
BitsOf(n) == CHOOSE k \in 1..15 : n \div (2 ^ (k - 1)) = 1

BitLen(a) == IF a = <<>> THEN 0 ELSE 15 * (Len(a) - 1) + BitsOf(a[Len(a)])

\* bit i of a, bit 0 the least significant
Bit(a, i) == (Limb(a, i \div 15 + 1) \div (2 ^ (i % 15))) % 2

\* the k lowest bits of a are all 0
LowBitsZero(a, k) ==
    /\ \A i \in 1..(k \div 15) : Limb(a, i) = 0
    /\ Limb(a, k \div 15 + 1) % (2 ^ (k % 15)) = 0

\* the number of 0 bits below the lowest 1 bit of a, for a not 0
TrailingZeros(a) == CHOOSE k \in 0..(BitLen(a) - 1) : Bit(a, k) = 1 /\ LowBitsZero(a, k)

\* one step of the long division of a by d, at bit i of a, from acc: the
\* quotient q and the remainder r of the bits above bit i
DivStep(a, d, acc, i) ==
    LET cur == ShiftIn(acc.r, 1, Bit(a, i))
    IN IF BigLess(cur, d)
       THEN [q |-> ShiftIn(acc.q, 1, 0), r |-> cur]
       ELSE [q |-> ShiftIn(acc.q, 1, 1), r |-> BigSub(cur, d)]

\* acc taken through the steps of the long division of a by d at the bits
\* hi, hi - 1, ..., lo of a, hi >= lo, each step starting when the one before
\* it has ended
RECURSIVE DivSteps(_, _, _, _, _)
DivSteps(a, d, hi, lo, acc) ==
    IF hi = lo THEN DivStep(a, d, acc, hi)
    ELSE CHOOSE r \in {DivSteps(a, d, (hi + lo - 1) \div 2, lo, upper) :
            upper \in {DivSteps(a, d, hi, (hi + lo + 1) \div 2, acc)}} : TRUE

\* quotient and remainder of a by d, for d not 0
BigDivMod(a, d) ==
    IF a = <<>> THEN [q |-> <<>>, r |-> <<>>]
    ELSE DivSteps(a, d, BitLen(a) - 1, 0, [q |-> <<>>, r |-> <<>>])

\* one step of the square root of a, at the bits 2i+1 and 2i of a, from acc:
\* the root q and the remainder r of the bits above them
SqrtStep(a, acc, i) ==
    LET cur   == ShiftIn(acc.r, 2, 2 * Bit(a, 2 * i + 1) + Bit(a, 2 * i))
        trial == ShiftIn(acc.q, 2, 1)
    IN IF BigLess(cur, trial)
       THEN [q |-> ShiftIn(acc.q, 1, 0), r |-> cur]
       ELSE [q |-> ShiftIn(acc.q, 1, 1), r |-> BigSub(cur, trial)]

\* acc taken through the steps of the square root of a at the bit pairs
\* hi, hi - 1, ..., lo of a, hi >= lo, each step starting when the one before
\* it has ended
RECURSIVE SqrtSteps(_, _, _, _)
SqrtSteps(a, hi, lo, acc) ==
    IF hi = lo THEN SqrtStep(a, acc, hi)
    ELSE CHOOSE r \in {SqrtSteps(a, (hi + lo - 1) \div 2, lo, upper) :
            upper \in {SqrtSteps(a, hi, (hi + lo + 1) \div 2, acc)}} : TRUE

\* the integer square root of a and what is left: a = q * q + r
BigSqrtRem(a) ==
    IF a = <<>> THEN [q |-> <<>>, r |-> <<>>]
    ELSE SqrtSteps(a, (BitLen(a) + 1) \div 2 - 1, 0, [q |-> <<>>, r |-> <<>>])

\* the digits of a number n below 2^31
NatLimbs(n) == Normal(<<n % Base, (n \div Base) % Base, n \div (Base * Base)>>)

-----------------------------------------------------------------------------
(* Python floats: IEEE 754 binary64                                        *)
(*                                                                         *)
(* A finite float that is not negative is [m, e], the number m * 2^e with  *)
(* m odd and below 2^53, or m = 0 and e = 0.  Every operation rounds its   *)
(* exact result to the nearest float, a tie to the even one.  The          *)
(* analyzer's sums stay far from the largest and the smallest float, so    *)
(* the exponent is not limited.                                            *)
(***************************************************************************)

MantissaBits == 53

FloatZero == [m |-> <<>>, e |-> 0]

Canon(n, e) ==
    IF n = <<>> THEN FloatZero
    ELSE LET tz == TrailingZeros(n) IN [m |-> ShiftRight(n, tz), e |-> e + tz]

\* n * 2^e, plus a positive part below 2^e when sticky, rounded to a float
Round(n, e, sticky) ==
    LET k == BitLen(n) - MantissaBits
    IN  IF k <= 0 THEN Canon(n, e)
        ELSE LET kept == ShiftRight(n, k)
                 rest == sticky \/ ~LowBitsZero(n, k - 1)
                 up == Bit(n, k - 1) = 1 /\ (rest \/ kept[1] % 2 = 1)
             IN  Canon(IF up THEN BigAdd(kept, <<1>>) ELSE kept, e + k)

\* float(n) for a natural number n
FromNat(n) == Round(NatLimbs(n), 0, FALSE)

MinExp(x, y) == IF x.e < y.e THEN x.e ELSE y.e

\* In all the operations below the operands a and b are the values of x and y:
\* an operation starts when its operands have been computed.

FLess(x, y) ==
    TheOne({BigLess(ShiftLeft(a.m, a.e - MinExp(a, b)), ShiftLeft(b.m, b.e - MinExp(a, b))) :
                a \in {x}, b \in {y}})

FLessEq(x, y) == ~FLess(y, x)

FAdd(x, y) ==
    TheOne({Round(BigAdd(ShiftLeft(a.m, a.e - MinExp(a, b)),
                         ShiftLeft(b.m, b.e - MinExp(a, b))), MinExp(a, b), FALSE) :
                a \in {x}, b \in {y}})

\* the difference of two natural numbers
BigAbsDiff(m, n) == IF BigLess(m, n) THEN BigSub(n, m) ELSE BigSub(m, n)

\* abs(x - y)
FAbsDiff(x, y) ==
    TheOne({Round(BigAbsDiff(ShiftLeft(a.m, a.e - MinExp(a, b)),
                             ShiftLeft(b.m, b.e - MinExp(a, b))), MinExp(a, b), FALSE) :
                a \in {x}, b \in {y}})

FMul(x, y) == TheOne({Round(BigMul(a.m, b.m), a.e + b.e, FALSE) : a \in {x}, b \in {y}})

\* how far to shift a numerator of len bits so that the quotient by a
\* denominator of by bits has more bits than a float keeps
DivShift(len, by) == IF MantissaBits + 2 + by - len > 0 THEN MantissaBits + 2 + by - len ELSE 0

\* the float nearest to a / b, for two floats a and b, b not 0
Quotient(a, b) ==
    IF a.m = <<>> THEN FloatZero
    ELSE TheOne({Round(res.q, a.e - DivShift(BitLen(a.m), BitLen(b.m)) - b.e, res.r # <<>>) :
            res \in {BigDivMod(ShiftLeft(a.m, DivShift(BitLen(a.m), BitLen(b.m))), b.m)}})

\* x / y, for y not 0
FDiv(x, y) == TheOne({Quotient(a, b) : a \in {x}, b \in {y}})

\* how far to shift a number of len bits and exponent e so that the exponent
\* left is even and the square root has more bits than a float keeps
SqrtShift(len, e) ==
    LET gap == 2 * (MantissaBits + 2) - len
        least == IF gap > 0 THEN gap ELSE 0
    IN  least + ((e - least) % 2)

\* the float nearest to the square root of a float a
Root(a) ==
    IF a.m = <<>> THEN FloatZero
    ELSE TheOne({Round(res.q, (a.e - SqrtShift(BitLen(a.m), a.e)) \div 2, res.r # <<>>) :
            res \in {BigSqrtRem(ShiftLeft(a.m, SqrtShift(BitLen(a.m), a.e)))}})

FSqrt(x) == TheOne({Root(a) : a \in {x}})

-----------------------------------------------------------------------------
(* The field extractor: AvitoParser._parse_item                            *)
(*                                                                         *)
(* A listing fragment is [attrs, children, markup, fault]:                 *)
(*   attrs     the fragment's own attributes data-item-id and id (the      *)
(*             empty text when absent);                                    *)
(*   children  its descendant elements in document order, each with the    *)
(*             set of the CSS selectors of _parse_item it matches, its     *)
(*             text and its optional href attribute;                       *)
(*   markup    for each of the four price patterns searched in             *)
(*             str(item_element), the optional digits its first match      *)
(*             captures;                                                   *)
(*   fault     the optional description of an exception raised inside the  *)
(*             try block.                                                  *)
(***************************************************************************)

\* item_element.select_one(selector)
select_one(f, selector) ==
    IF \E i \in DOMAIN f.children : selector \in f.children[i].sel
    THEN Some(f.children[CHOOSE i \in DOMAIN f.children :
                  /\ selector \in f.children[i].sel
                  /\ \A j \in 1..(i - 1) : selector \notin f.children[j].sel])
    ELSE None

RECURSIVE JoinStripped(_)
JoinStripped(children) ==
    IF children = <<>> THEN <<>>
    ELSE Strip(Head(children).text) \o JoinStripped(Tail(children))

\* item_element.get_text(strip=True)
get_text(f) == JoinStripped(f.children)

NoTitle == <<"Net", " ", "zagolovka">>

NotSpecified == <<"Ne", " ", "ukazano">>

DeliveryMarker == "dostavka"

BaseUrl == <<"https://www.avito.ru">>

\* lines 108-111
ItemId(f) ==
    IF f.attrs.data_item_id # <<>> THEN f.attrs.data_item_id
    ELSE Remove(f.attrs.id, "i")

\* lines 114-115
ItemTitle(f) ==
    LET title_element == FirstSome(<<select_one(f, "[itemprop=name]"),
                                     select_one(f, ".title-root"),
                                     select_one(f, "[data-marker=item-title]")>>)
    IN  IF title_element # None THEN Strip(title_element[1].text) ELSE NoTitle

\* lines 118-122
ItemUrl(f) ==
    LET link_element == FirstSome(<<select_one(f, "a[href^=/]"),
                                    select_one(f, "a[itemprop=url]")>>)
    IN  IF link_element # None /\ link_element[1].href # None
        THEN BaseUrl \o link_element[1].href[1]
        ELSE <<>>

\* lines 125-131
PriceElement(f) ==
    FirstSome(<<select_one(f, "[data-marker=item-price]"),
                select_one(f, "[itemprop=price]"),
                select_one(f, ".styles-module-root-_KFFt"),
                select_one(f, ".price-text"),
                select_one(f, "[class*=price]")>>)

KeptInPrice(c) == IsDigit(c) \/ c = "."

\* lines 134-140: the selector tier
SelectorPrice(price_element) ==
    LET price_text == Strip(price_element.text)
        price == SelectSeq(price_text, KeptInPrice)
    IN  IF price = <<>> THEN IntZero
        ELSE IF PyFloat(price).ok THEN PyFloat(price).val ELSE IntZero

\* lines 143-159: the markup-pattern tier; the first pattern that matches wins
MarkupPrice(f) ==
    LET match == FirstSome(f.markup)
    IN  IF match # None /\ PyFloat(match[1]).ok THEN PyFloat(match[1]).val
        ELSE IntZero

\* The last position of the longest run of digits and whitespace that starts
\* at position i, a digit, and ends in a digit.
RunEnd(t, i) ==
    LET stop == IF \E k \in i..Len(t) : ~(IsDecimal(t[k]) \/ IsSpace(t[k]))
                THEN (CHOOSE k \in i..Len(t) :
                          /\ ~(IsDecimal(t[k]) \/ IsSpace(t[k]))
                          /\ \A m \in i..(k - 1) : IsDecimal(t[m]) \/ IsSpace(t[m])) - 1
                ELSE Len(t)
    IN  CHOOSE k \in i..stop :
            IsDecimal(t[k]) /\ \A m \in (k + 1)..stop : ~IsDecimal(t[m])

\* group 1 of re.search(r'(\d[\d\s]*\d|\d+)[.,]?\d*\s*(rub|R)?', full_text),
\* optional: no match when the text holds no digit
PriceMatch(full_text) ==
    IF \E i \in DOMAIN full_text : IsDecimal(full_text[i])
    THEN LET i == CHOOSE k \in DOMAIN full_text :
                      /\ IsDecimal(full_text[k])
                      /\ \A m \in 1..(k - 1) : ~IsDecimal(full_text[m])
         IN  Some(SubSeq(full_text, i, RunEnd(full_text, i)))
    ELSE None

\* lines 165-175: the visible-text tier, entered with a price equal to 0
TextPrice(f, price) ==
    LET price_match == PriceMatch(get_text(f))
        price_str == Remove(price_match[1], " ")
    IN  IF price_match # None /\ PyFloat(price_str).ok THEN PyFloat(price_str).val
        ELSE price

\* lines 125-175: the price cascade
ItemPrice(f) ==
    LET price_element == PriceElement(f)
        first == IF price_element # None THEN SelectorPrice(price_element[1])
                 ELSE MarkupPrice(f)
    IN  IF IsZero(first) THEN TextPrice(f, first) ELSE first

\* lines 125-175: the tiers of the price cascade the call goes through, in
\* order; the selectors are always tried
PriceTiers(f) ==
    LET price_element == PriceElement(f)
        first == IF price_element # None THEN SelectorPrice(price_element[1])
                 ELSE MarkupPrice(f)
    IN  <<"selector">>
            \o (IF price_element # None THEN <<>> ELSE <<"markup">>)
            \o (IF IsZero(first) THEN <<"text">> ELSE <<>>)

\* lines 178-179
ItemDate(f) ==
    LET date_element == select_one(f, "[data-marker=item-date]")
    IN  IF date_element # None THEN Strip(date_element[1].text) ELSE <<>>

\* lines 182-196
ItemLocation(f) ==
    LET location_element == FirstSome(<<select_one(f, "[data-marker=item-location]"),
                                        select_one(f, "[class*=geo]")>>)
        location_text == Strip(location_element[1].text)
        alt_location == select_one(f, "[class*=location]")
    IN  IF location_element = None THEN NotSpecified
        ELSE IF Contains(Lower(location_text), DeliveryMarker)
        THEN IF /\ alt_location # None
                /\ ~Contains(Lower(alt_location[1].text), DeliveryMarker)
             THEN Strip(alt_location[1].text)
             ELSE NotSpecified
        ELSE location_text

ErrorRecordUnmarked(description) ==
    [id |-> <<>>, title |-> <<>>, url |-> <<>>, price |-> IntZero,
     date |-> <<>>, location |-> <<>>]

\* lines 199-209: the record returned by the except branch
ErrorRecord(description) ==
    [id |-> <<>>, title |-> <<>>, url |-> <<>>, price |-> IntZero,
     date |-> <<>>, location |-> <<>>, error |-> description]

\* AvitoParser._parse_item
ParseItem(f) ==
    IF f.fault # None THEN ErrorRecord(f.fault[1])
    ELSE [id |-> ItemId(f), title |-> ItemTitle(f), url |-> ItemUrl(f),
          price |-> ItemPrice(f), date |-> ItemDate(f), location |-> ItemLocation(f)]

-----------------------------------------------------------------------------
(* The source site, as the crawl sees it                                   *)
(*                                                                         *)
(* A page body is [n, kind]: kind "empty" is the empty string, "plain" and *)
(* "faulty" are HTML holding n listing fragments; in a faulty page every   *)
(* third fragment, from the first on, makes the extractor raise.  The      *)
(* kinds "pending" and "none" appear in crawl_log only: a request still    *)
(* running, and the fetcher's failure signal.                              *)
(***************************************************************************)

FullPage == 50

Digit(n) == <<"0", "1", "2", "3", "4", "5", "6", "7", "8", "9">>[n + 1]

RECURSIVE DecText(_)
DecText(n) == IF n < 10 THEN <<Digit(n)>> ELSE DecText(n \div 10) \o <<Digit(n % 10)>>

EmptyFragment ==
    [attrs |-> [data_item_id |-> <<>>, id |-> <<>>], children |-> <<>>,
     markup |-> <<None, None, None, None>>, fault |-> None]

\* fragment i of page p of the source
Listing(p, i, kind) ==
    [attrs |-> [data_item_id |-> DecText(1000 * p + i), id |-> <<>>],
     children |->
        << [sel |-> {"[itemprop=name]"}, text |-> <<"Lot">>, href |-> None],
           [sel |-> {"a[href^=/]"}, text |-> <<>>,
            href |-> Some(<<"/item/">> \o DecText(1000 * p + i))],
           [sel |-> {"[data-marker=item-price]"},
            text |-> DecText(i) \o <<" ", "5", "0", "0", " ", "R">>, href |-> None],
           [sel |-> {"[data-marker=item-location]"}, text |-> <<"Moskva">>,
            href |-> None] >>,
     markup |-> <<None, None, None, None>>,
     fault |-> IF kind = "faulty" /\ i % 3 = 1 THEN Some(<<"AttributeError">>) ELSE None]

\* len(items), for items = soup.select('[data-marker="item"]') on a body
ItemCount(body) == body.n

\* items[i - 1], on the body fetched for page p
Item(body, p, i) == Listing(p, i, body.kind)

PageLens == {0, 1, FullPage - 1, FullPage, MaxPageLen}

Bodies ==
    {[n |-> 0, kind |-> "empty"]}
        \cup {[n |-> n, kind |-> k] : n \in PageLens, k \in {"plain", "faulty"}}

\* what a failing session.get or raise_for_status raises: requests' Timeout,
\* ConnectionError and HTTPError
Failures == {"Timeout", "ConnectionError", "HTTPError"}

Limits == {-1, 0, 1, FullPage, FullPage + 1, MaxLimit}

-----------------------------------------------------------------------------
(* The fetcher: AvitoParser._make_request                                  *)

InRangeOneMore(a) == a <= max_retries

\* line 67: for attempt in range(self.max_retries)
InRange(a) == a < max_retries

\* line 76: except requests.RequestException, the base class of the three
Catches(exception) == exception \in {"Timeout", "ConnectionError", "HTTPError"}

SleepsAfterEveryFailure(a) == TRUE

\* line 78
SleepsBeforeRetry(a) == a < max_retries - 1

SleepTimeExponential(a, jitter) == delay * (2 ^ a) * TicksPerSec + jitter

\* line 79, in ticks; jitter stands for random.uniform(0, 1)
SleepTime(a, jitter) == delay * (a + 1) * TicksPerSec + jitter

\* lines 69-75: an attempt that succeeds; the call returns response.text
GetOk ==
    /\ pc = "get"
    /\ InRange(attempt)
    /\ \E body \in Bodies :
          html_content' = Some(body)
    /\ requests' = requests + 1
    /\ pc' = "fetched"
    /\ UNCHANGED <<max_retries, delay, limit, all_items, page_num, items_count, idx,
                   attempt, caught, sleeps, crawl_log, pause, result, fragment, data,
                   z_threshold, previous_data, csv_file, args, events, url, local_first>>

\* lines 69-78: an attempt that raises; an exception the except clause does
\* not catch leaves the call and its callers ("raised")
GetFails ==
    /\ pc = "get"
    /\ InRange(attempt)
    /\ \E failure \in Failures :
          /\ caught' = failure
          /\ IF ~Catches(failure) THEN pc' = "raised" /\ attempt' = attempt
             ELSE IF SleepsBeforeRetry(attempt) THEN pc' = "sleep" /\ attempt' = attempt
             ELSE pc' = "get" /\ attempt' = attempt + 1
    /\ requests' = requests + 1
    /\ UNCHANGED <<max_retries, delay, limit, all_items, page_num, items_count,
                   html_content, idx, sleeps, crawl_log, pause, result, fragment,
                   data, z_threshold, previous_data, csv_file, args, events, url, local_first>>

\* lines 79-81
Sleep ==
    /\ pc = "sleep"
    /\ \E jitter \in 0..(TicksPerSec - 1) :
          sleeps' = Append(sleeps, SleepTime(attempt, jitter))
    /\ attempt' = attempt + 1
    /\ pc' = "get"
    /\ UNCHANGED <<max_retries, delay, limit, all_items, page_num, items_count,
                   html_content, idx, requests, caught, crawl_log, pause, result, fragment,
                   data, z_threshold, previous_data, csv_file, args, events, url, local_first>>

\* lines 83-84: the range is exhausted
GiveUp ==
    /\ pc = "get"
    /\ ~InRange(attempt)
    /\ html_content' = None
    /\ pc' = "fetched"
    /\ UNCHANGED <<max_retries, delay, limit, all_items, page_num, items_count, idx,
                   attempt, requests, caught, sleeps, crawl_log, pause, result, fragment,
                   data, z_threshold, previous_data, csv_file, args, events, url, local_first>>

-----------------------------------------------------------------------------
(* The paginator: AvitoParser.parse_search_page                            *)

LimitExceeded(count) == count > limit

\* lines 235, 254, 261
LimitReached(count) == count >= limit

IsLastPageOffByOne(n) == n < FullPage - 1

IsLastPageNever(n) == FALSE

\* line 266
IsLastPage(n) == n < FullPage

NoContentNoneOnly(content) == content = None

\* line 240: not html_content
NoContent(content) == content = None \/ content[1].kind = "empty"

\* crawl_log with its last entry completed by what the request returned
Logged(content) ==
    [crawl_log EXCEPT ![Len(crawl_log)] =
        IF content = None THEN [@ EXCEPT !.kind = "none"]
        ELSE [@ EXCEPT !.kind = content[1].kind, !.n = content[1].n]]

\* lines 235-239: the loop test, and the call of _make_request
WhileTest ==
    /\ pc = "while"
    /\ IF ~LimitReached(items_count)
       THEN /\ pc' = "get"
            /\ attempt' = 0
            /\ requests' = 0
            /\ caught' = "none"
            /\ sleeps' = <<>>
            /\ crawl_log' = Append(crawl_log, [page |-> page_num, at |-> items_count,
                                               n |-> 0, kind |-> "pending"])
       ELSE /\ pc' = "return"
            /\ UNCHANGED <<attempt, requests, caught, sleeps, crawl_log>>
    /\ pause' = 0
    /\ UNCHANGED <<max_retries, delay, limit, all_items, page_num, items_count,
                   html_content, idx, result, fragment, data, z_threshold, previous_data, csv_file, args, events,
                   url, local_first>>

\* lines 240-251: the result of _make_request is looked at, the items selected.
\* The frame of the returned call (attempt, and the record of its requests and
\* sleeps) is dropped here.  The branch of line 241 (logger.error, break) is
\* the event "no_content", that of line 249 (logger.warning, break) "no_items".
CheckContent ==
    /\ pc = "fetched"
    /\ crawl_log' = Logged(html_content)
    /\ IF NoContent(html_content)
       THEN pc' = "return" /\ events' = Append(events, "no_content")
       ELSE IF ItemCount(html_content[1]) = 0
       THEN pc' = "return" /\ events' = Append(events, "no_items")
       ELSE pc' = "for" /\ events' = events
    /\ idx' = 1
    /\ attempt' = 0
    /\ requests' = 0
    /\ caught' = "none"
    /\ sleeps' = <<>>
    /\ UNCHANGED <<max_retries, delay, limit, all_items, page_num, items_count,
                   html_content, pause, result, fragment, data, z_threshold, previous_data,
                   csv_file, args, url, local_first>>

\* lines 253-259: one turn of the for loop
ForStep ==
    /\ pc = "for"
    /\ IF idx <= ItemCount(html_content[1]) /\ ~LimitReached(items_count)
       THEN /\ all_items' =
                  Append(all_items, ParseItem(Item(html_content[1], page_num, idx)))
            /\ items_count' = items_count + 1
            /\ idx' = idx + 1
            /\ pc' = "for"
       ELSE /\ pc' = "after_for"
            /\ UNCHANGED <<all_items, items_count, idx>>
    /\ UNCHANGED <<max_retries, delay, limit, page_num, html_content, attempt,
                   requests, caught, sleeps, crawl_log, pause, result, fragment, data,
                   z_threshold, previous_data, csv_file, args, events, url, local_first>>

\* lines 261-270
AfterFor ==
    /\ pc = "after_for"
    /\ IF LimitReached(items_count) THEN pc' = "return" /\ page_num' = page_num
       ELSE IF IsLastPage(ItemCount(html_content[1])) THEN pc' = "return" /\ page_num' = page_num
       ELSE pc' = "pause" /\ page_num' = page_num + 1
    /\ UNCHANGED <<max_retries, delay, limit, all_items, items_count, html_content,
                   idx, attempt, requests, caught, sleeps, crawl_log, pause, result,
                   fragment, data, z_threshold, previous_data, csv_file, args, events,
                   url, local_first>>

PauseTimeJitterOnly(jitter) == jitter

\* line 272, in ticks
PauseTime(jitter) == delay * TicksPerSec + jitter

\* line 272: time.sleep(self.delay + random.uniform(0, 2))
Pause ==
    /\ pc = "pause"
    /\ \E jitter \in 0..(2 * TicksPerSec - 1) : pause' = PauseTime(jitter)
    /\ pc' = "while"
    /\ UNCHANGED <<max_retries, delay, limit, all_items, page_num, items_count,
                   html_content, idx, attempt, requests, caught, sleeps, crawl_log,
                   result, fragment, data, z_threshold, previous_data, csv_file, args, events,
                   url, local_first>>

ReturnNothingAfterFailure ==
    /\ pc = "return"
    /\ result' = IF crawl_log # <<>> /\ crawl_log[Len(crawl_log)].kind = "none"
                 THEN <<>> ELSE all_items
    /\ pc' = "done"
    /\ UNCHANGED <<max_retries, delay, limit, all_items, page_num, items_count,
                   html_content, idx, attempt, requests, caught, sleeps, crawl_log,
                   pause, fragment, data, z_threshold, previous_data, csv_file, args, events,
                   url, local_first>>

\* lines 274-275
Return ==
    /\ pc = "return"
    /\ result' = all_items
    /\ pc' = "done"
    /\ UNCHANGED <<max_retries, delay, limit, all_items, page_num, items_count,
                   html_content, idx, attempt, requests, caught, sleeps, crawl_log,
                   pause, fragment, data, z_threshold, previous_data, csv_file, args, events,
                   url, local_first>>

\* lines 25-27 and 229-231: a parser built from its configuration, and a call of
\* parse_search_page on it that has initialised its locals
Init ==
    /\ max_retries \in 0..MaxRetries
    /\ delay \in 0..MaxDelay
    /\ limit \in Limits
    /\ pc = "while"
    /\ all_items = <<>>
    /\ page_num = 1
    /\ items_count = 0
    /\ html_content = None
    /\ idx = 1
    /\ attempt = 0
    /\ requests = 0
    /\ caught = "none"
    /\ sleeps = <<>>
    /\ crawl_log = <<>>
    /\ pause = 0
    /\ result = <<>>
    /\ fragment = EmptyFragment
    /\ data = <<>>
    /\ z_threshold = FloatZero
    /\ previous_data = <<>>
    /\ csv_file = None
    /\ args = NoArgs
    /\ events = <<>>
    /\ url = <<>>
    /\ local_first = TRUE

Next ==
    \/ WhileTest
    \/ GetOk
    \/ GetFails
    \/ Sleep
    \/ GiveUp
    \/ CheckContent
    \/ ForStep
    \/ AfterFor
    \/ Pause
    \/ Return

Spec == Init /\ [][Next]_vars

-----------------------------------------------------------------------------
(* Runs of the extractor alone: _parse_item applied to one listing fragment *)

DefaultMaxRetries == 3

DefaultDelay == 2

DefaultLimit == 100

El(sels, text) == [sel |-> sels, text |-> text, href |-> None]

Link(sels, href) == [sel |-> sels, text |-> <<>>, href |-> href]

NoMarkup == <<None, None, None, None>>

Frag(attrs, title, link, price, date, loc, desc, markup, fault) ==
    [attrs |-> attrs, children |-> title \o link \o price \o date \o loc \o desc,
     markup |-> markup, fault |-> fault]

AttrChoices ==
    { [data_item_id |-> <<"7", "7">>, id |-> <<"i", "4", "2">>],
      [data_item_id |-> <<>>, id |-> <<"i", "4", "2">>],
      [data_item_id |-> <<>>, id |-> <<>>] }

TitleChoices ==
    { <<>>,
      <<El({"[itemprop=name]"}, <<" ", "Stol", " ">>)>>,
      <<El({".title-root"}, <<"iPhone", " ", "1", "2">>),
        El({"[data-marker=item-title]"}, <<"Stul">>)>> }

LinkChoices ==
    { <<>>,
      <<Link({"a[href^=/]"}, Some(<<"/stol_">>))>>,
      <<Link({"a[itemprop=url]"}, None)>>,
      <<Link({"a[itemprop=url]"}, Some(<<"https://m.avito.ru/divan_">>))>>,
      <<Link({"a[itemprop=url]"}, Some(<<"https://m.avito.ru/stol_">>)),
        Link({"a[href^=/]", "a[itemprop=url]"}, Some(<<"/stul_">>))>> }

PriceChoices ==
    { <<>>,
      <<El({"[data-marker=item-price]"}, <<" ", "1", " ", "5", "0", "0", " ", "R">>)>>,
      <<El({"[itemprop=price]"}, <<"Besplatno">>)>>,
      <<El({".price-text", "[class*=price]"}, <<"1", ".", "5", ".", "3">>)>>,
      <<El({"[class*=price]"}, <<"1", "2", ".", "5", "0", " ", "R">>)>>,
      <<El({".styles-module-root-_KFFt"}, <<"m", "^2", " ", "5">>)>>,
      <<El({"[data-marker=item-price]"}, <<"0", " ", "R">>)>>,
      <<El({"[class*=price]"}, <<"4", "0", "0">>),
        El({"[data-marker=item-price]"}, <<"9", "0", "0">>)>>,
      <<El({"[data-marker=item-price]"}, [i \in 1..400 |-> "9"])>> }

MarkupChoices ==
    { NoMarkup,
      <<None, Some(<<"7", "0", "0">>), None, Some(<<"9">>)>>,
      <<Some(<<"0">>), None, None, Some(<<"8">>)>> }

DateChoices ==
    { <<>>,
      <<El({"[data-marker=item-date]"}, <<" ", "2", " ", "dnya", " ", "nazad">>)>> }

LocationChoices ==
    { <<>>,
      <<El({"[data-marker=item-location]"}, <<"Moskva">>)>>,
      <<El({"[class*=geo]"}, <<" ", "Kazan", " ">>)>>,
      <<El({"[data-marker=item-location]"}, <<"Dostavka">>),
        El({"[class*=location]"}, <<" ", "Tula">>)>>,
      <<El({"[class*=geo]"}, <<"DOSTAVKA", " ", "iz", " ", "Moskva">>),
        El({"[class*=location]"}, <<"dostavka">>),
        El({"[class*=location]"}, <<"Tula">>)>>,
      <<El({"[data-marker=item-location]"}, <<"dostavka">>)>> }

DescChoices ==
    { <<>>,
      <<El({}, <<"tel", " ", "8", " ", "9", "0", "0", ",", "5">>)>>,
      <<El({}, <<"3", "\t", "0", "0", "0", " ", "R">>)>>,
      <<El({}, <<"torg">>)>> }

FaultChoices == {Some(<<"KeyError">>), Some(<<>>)}

Fragments ==
    {Frag(a, t, l, <<>>, <<>>, <<>>, <<>>, NoMarkup, None) :
        a \in AttrChoices, t \in TitleChoices, l \in LinkChoices}
    \cup
    {Frag([data_item_id |-> <<"7">>, id |-> <<>>], t, <<>>, p, d, <<>>, x, m, None) :
        t \in TitleChoices, p \in PriceChoices, d \in DateChoices, x \in DescChoices,
        m \in MarkupChoices}
    \cup
    {Frag([data_item_id |-> <<"7">>, id |-> <<>>], <<>>, <<>>, <<>>, d, c, <<>>,
          NoMarkup, None) :
        d \in DateChoices, c \in LocationChoices}
    \cup
    {Frag(a, <<>>, <<>>, p, <<>>, c, <<>>, NoMarkup, e) :
        a \in AttrChoices, p \in PriceChoices, c \in LocationChoices, e \in FaultChoices}

\* line 257: item_data = self._parse_item(item)
ParseItemCall ==
    /\ pc = "parse_item"
    /\ result' = ParseItem(fragment)
    /\ events' = IF fragment.fault # None THEN <<>> ELSE PriceTiers(fragment)
    /\ pc' = "parsed"
    /\ UNCHANGED <<crawl_vars, fragment, data, z_threshold, previous_data, csv_file, args,
                   url, local_first>>

InitItem ==
    /\ max_retries = DefaultMaxRetries
    /\ delay = DefaultDelay
    /\ limit = DefaultLimit
    /\ pc = "parse_item"
    /\ all_items = <<>>
    /\ page_num = 1
    /\ items_count = 0
    /\ html_content = None
    /\ idx = 1
    /\ attempt = 0
    /\ requests = 0
    /\ caught = "none"
    /\ sleeps = <<>>
    /\ crawl_log = <<>>
    /\ pause = 0
    /\ result = <<>>
    /\ fragment \in Fragments
    /\ data = <<>>
    /\ z_threshold = FloatZero
    /\ previous_data = <<>>
    /\ csv_file = None
    /\ args = NoArgs
    /\ events = <<>>
    /\ url = <<>>
    /\ local_first = TRUE

NextItem == ParseItemCall

SpecItem == InitItem /\ [][NextItem]_vars

-----------------------------------------------------------------------------
(* The analyzer: AvitoAnalyzer                                             *)
(*                                                                         *)
(* The prices of the analyzer's records are floats, as numpy and pandas    *)
(* take them, and every statistic is computed in float arithmetic, in the  *)
(* order in which the library computes it.                                 *)
(***************************************************************************)

PositiveOrZero(x) == TRUE

\* p > 0
Positive(x) == x.m # <<>>

\* line 38
Prices(records) == [i \in DOMAIN records |-> records[i].price]

\* acc plus the elements lo, lo + 1, ..., hi of an array, lo <= hi, added one
\* after the other
RECURSIVE SumFrom(_, _, _, _)
SumFrom(xs, lo, hi, acc) ==
    IF hi = lo THEN FAdd(acc, xs[lo])
    ELSE CHOOSE r \in {SumFrom(xs, (hi + lo) \div 2 + 1, hi, lower) :
            lower \in {SumFrom(xs, lo, (hi + lo) \div 2, acc)}} : TRUE

Sum(xs) == IF xs = <<>> THEN FloatZero ELSE SumFrom(xs, 1, Len(xs), FloatZero)

\* np.mean, Series.mean
Mean(xs) == FDiv(Sum(xs), FromNat(Len(xs)))

\* the place of element i of xs in sorted order: after the smaller elements and
\* after the equal elements before it
Rank(xs, i) ==
    1 + Cardinality({j \in DOMAIN xs : FLess(xs[j], xs[i]) \/ (j < i /\ xs[j] = xs[i])})

Sorted(xs) == [k \in DOMAIN xs |-> xs[CHOOSE i \in DOMAIN xs : Rank(xs, i) = k]]

\* np.median: the mean of the middle element or of the two middle elements
Median(xs) ==
    LET sorted == Sorted(xs)
        half == Len(xs) \div 2
    IN  IF Len(xs) % 2 = 1 THEN Mean(<<sorted[half + 1]>>)
        ELSE Mean(<<sorted[half], sorted[half + 1]>>)

\* min(non_zero_prices)
MinOf(xs) == Sorted(xs)[1]

\* max(non_zero_prices)
MaxOf(xs) == Sorted(xs)[Len(xs)]

\* the squared deviations from the mean
SquaredDeviations(xs) ==
    TheOne({[i \in DOMAIN xs |-> FMul(FAbsDiff(xs[i], mean), FAbsDiff(xs[i], mean))] :
            mean \in {Mean(xs)}})

\* np.std: the population standard deviation (ddof = 0)
PopulationStd(xs) == FSqrt(FDiv(Sum(SquaredDeviations(xs)), FromNat(Len(xs))))

\* Series.std: the sample standard deviation (ddof = 1), NaN (None) for one value
SampleStd(xs) ==
    IF Len(xs) < 2 THEN None
    ELSE Some(FSqrt(FDiv(Sum(SquaredDeviations(xs)), FromNat(Len(xs) - 1))))

\* AvitoAnalyzer.get_price_statistics
get_price_statistics(records) ==
    LET prices == Prices(records)
        non_zero_prices == SelectSeq(prices, Positive)
    IN  IF records = <<>>
        THEN [count |-> 0, avg_price |-> FloatZero, median_price |-> FloatZero,
              min_price |-> FloatZero, max_price |-> FloatZero, std_price |-> FloatZero]
        ELSE IF non_zero_prices = <<>>
        THEN [count |-> Len(records), avg_price |-> FloatZero, median_price |-> FloatZero,
              min_price |-> FloatZero, max_price |-> FloatZero, std_price |-> FloatZero,
              zero_prices_count |-> Len(records)]
        ELSE [count |-> Len(records),
              avg_price |-> Mean(non_zero_prices),
              median_price |-> Median(non_zero_prices),
              min_price |-> MinOf(non_zero_prices),
              max_price |-> MaxOf(non_zero_prices),
              std_price |-> PopulationStd(non_zero_prices),
              zero_prices_count |-> Len(prices) - Len(non_zero_prices)]

HasPositivePrice(record) == Positive(record.price)

\* lines 140-143: abs((price - mean_price) / std_price) > z_threshold
ExceedsThreshold(price, mean_price, std_price, threshold) ==
    FLess(threshold, FDiv(FAbsDiff(price, mean_price), std_price))

Flagged(records, mean_price, std_price, threshold) ==
    SelectSeq(records,
              LAMBDA record : ExceedsThreshold(record.price, mean_price, std_price, threshold))

\* AvitoAnalyzer.find_outliers
find_outliers(records, threshold) ==
    LET df_non_zero == SelectSeq(records, HasPositivePrice)
        mean_price == Mean(Prices(df_non_zero))
        std_price == SampleStd(Prices(df_non_zero))
    IN  IF records = <<>> THEN <<>>
        ELSE IF df_non_zero = <<>> THEN <<>>
        ELSE IF std_price = None THEN <<>>
        ELSE IF std_price[1] = FloatZero THEN <<>>
        ELSE Flagged(df_non_zero, mean_price, std_price[1], threshold)

\* float("1999.99"): the float nearest to 199999 / 100
Price1999_99 == FDiv(FromNat(199999), FromNat(100))

\* prices in whole roubles, and prices with kopecks
WholePrices == {FloatZero, FromNat(100), FromNat(10000)}

KopeckPrices == {FloatZero, Price1999_99}

\* 2.0, 1.5 and 0.5
Thresholds == {FromNat(2), FDiv(FromNat(3), FromNat(2)), FDiv(FromNat(1), FromNat(2))}

PriceLists ==
    UNION {[1..n -> WholePrices] \cup [1..n -> KopeckPrices] : n \in 0..MaxRecords}

\* the records of a sequence of prices: record i has id i
RecordsOf(prices) ==
    [i \in DOMAIN prices |->
        [id |-> DecText(i), title |-> <<"Lot">>, url |-> <<>>, price |-> prices[i],
         date |-> <<>>, location |-> <<"Moskva">>]]

GetPriceStatistics ==
    /\ pc = "analyze"
    /\ result' = get_price_statistics(data)
    /\ pc' = "stats_done"
    /\ UNCHANGED <<crawl_vars, fragment, data, z_threshold, previous_data, csv_file, args, events,
                   url, local_first>>

FindOutliers ==
    /\ pc = "analyze"
    /\ \E threshold \in Thresholds :
          /\ z_threshold' = threshold
          /\ result' = find_outliers(data, threshold)
    /\ pc' = "outliers_done"
    /\ UNCHANGED <<crawl_vars, fragment, data, previous_data, csv_file, args, events,
                   url, local_first>>

InitStats ==
    /\ max_retries = DefaultMaxRetries
    /\ delay = DefaultDelay
    /\ limit = DefaultLimit
    /\ pc = "analyze"
    /\ all_items = <<>>
    /\ page_num = 1
    /\ items_count = 0
    /\ html_content = None
    /\ idx = 1
    /\ attempt = 0
    /\ requests = 0
    /\ caught = "none"
    /\ sleeps = <<>>
    /\ crawl_log = <<>>
    /\ pause = 0
    /\ result = <<>>
    /\ fragment = EmptyFragment
    /\ \E prices \in PriceLists : data = RecordsOf(prices)
    /\ z_threshold = FloatZero
    /\ previous_data = <<>>
    /\ csv_file = None
    /\ args = NoArgs
    /\ events = <<>>
    /\ url = <<>>
    /\ local_first = TRUE

\* runs of get_price_statistics
NextStats == GetPriceStatistics

SpecStats == InitStats /\ [][NextStats]_vars

\* runs of find_outliers
NextOutliers == FindOutliers

SpecOutliers == InitStats /\ [][NextOutliers]_vars

-----------------------------------------------------------------------------
(* The analyzer: compare_with_previous                                     *)
(*                                                                         *)
(* A difference of two statistics is [neg, abs]: its sign and its          *)
(* magnitude.  A division by 0 ends the call: the call's result is then    *)
(* [raised |-> "ZeroDivisionError"].                                       *)
(***************************************************************************)

MaxCompared == 2

\* x - y
FSub(x, y) == [neg |-> FLess(x, y), abs |-> FAbsDiff(x, y)]

\* change / previous * 100
PercentOf(change, previous) ==
    IF previous = FloatZero THEN [raised |-> "ZeroDivisionError"]
    ELSE [neg |-> change.neg, abs |-> FMul(FDiv(change.abs, previous), FromNat(100))]

ChangePercentUnguarded(change, previous) == PercentOf(change, previous)

\* lines 172 and 175: (change / previous * 100) if previous > 0 else 0
ChangePercent(change, previous) ==
    IF Positive(previous) THEN PercentOf(change, previous)
    ELSE [neg |-> FALSE, abs |-> FloatZero]

\* AvitoAnalyzer.compare_with_previous
compare_with_previous(current_data, previous) ==
    LET current_stats == get_price_statistics(current_data)
        previous_stats == get_price_statistics(previous)
        avg_price_change == FSub(current_stats.avg_price, previous_stats.avg_price)
        avg_price_change_percent ==
            ChangePercent(avg_price_change, previous_stats.avg_price)
        median_price_change ==
            FSub(current_stats.median_price, previous_stats.median_price)
        median_price_change_percent ==
            ChangePercent(median_price_change, previous_stats.median_price)
    IN  IF current_data = <<>> \/ previous = <<>> THEN [comparison_available |-> FALSE]
        ELSE IF "raised" \in DOMAIN avg_price_change_percent
        THEN avg_price_change_percent
        ELSE IF "raised" \in DOMAIN median_price_change_percent
        THEN median_price_change_percent
        ELSE [comparison_available |-> TRUE,
              current_count |-> current_stats.count,
              previous_count |-> previous_stats.count,
              count_change |-> current_stats.count - previous_stats.count,
              avg_price_change |-> avg_price_change,
              avg_price_change_percent |-> avg_price_change_percent,
              median_price_change |-> median_price_change,
              median_price_change_percent |-> median_price_change_percent,
              max_price_change |-> FSub(current_stats.max_price, previous_stats.max_price),
              min_price_change |-> FSub(current_stats.min_price, previous_stats.min_price)]

ComparedPrices == {FloatZero, FromNat(100), Price1999_99}

ComparedLists == UNION {[1..n -> ComparedPrices] : n \in 0..MaxCompared}

CompareWithPrevious ==
    /\ pc = "compare"
    /\ result' = compare_with_previous(data, previous_data)
    /\ pc' = "compared"
    /\ UNCHANGED <<crawl_vars, fragment, data, z_threshold, previous_data, csv_file, args, events,
                   url, local_first>>

InitCompare ==
    /\ max_retries = DefaultMaxRetries
    /\ delay = DefaultDelay
    /\ limit = DefaultLimit
    /\ pc = "compare"
    /\ all_items = <<>>
    /\ page_num = 1
    /\ items_count = 0
    /\ html_content = None
    /\ idx = 1
    /\ attempt = 0
    /\ requests = 0
    /\ caught = "none"
    /\ sleeps = <<>>
    /\ crawl_log = <<>>
    /\ pause = 0
    /\ result = <<>>
    /\ fragment = EmptyFragment
    /\ \E prices \in ComparedLists : data = RecordsOf(prices)
    /\ z_threshold = FloatZero
    /\ \E prices \in ComparedLists : previous_data = RecordsOf(prices)
    /\ csv_file = None
    /\ args = NoArgs
    /\ events = <<>>
    /\ url = <<>>
    /\ local_first = TRUE

NextCompare == CompareWithPrevious

SpecCompare == InitCompare /\ [][NextCompare]_vars

-----------------------------------------------------------------------------
(* The analyzer: get_location_distribution                                 *)
(*                                                                         *)
(* A dict is the sequence of its items [key, count] in insertion order,    *)
(* the order in which Python iterates it.                                  *)
(***************************************************************************)

MaxLocations == 4

\* line 91
Locations(records) == [i \in DOMAIN records |-> Strip(records[i].location)]

HasKey(counts, loc) == \E k \in DOMAIN counts : counts[k].key = loc

\* line 98: location_counts[loc] = location_counts.get(loc, 0) + 1
Counted(counts, loc) ==
    IF HasKey(counts, loc)
    THEN [k \in DOMAIN counts |->
            IF counts[k].key = loc THEN [counts[k] EXCEPT !.count = @ + 1] ELSE counts[k]]
    ELSE Append(counts, [key |-> loc, count |-> 1])

\* lines 94-98: location_counts after the loop over the first n locations
RECURSIVE LocationCounts(_, _)
LocationCounts(locations, n) ==
    IF n = 0 THEN <<>>
    ELSE IF locations[n] = <<>> THEN LocationCounts(locations, n - 1)
    ELSE Counted(LocationCounts(locations, n - 1), locations[n])

\* the place of item i after the sort: sorted(..., reverse=True) is stable, the
\* items of equal count keep their order
PlaceByCount(items, i) ==
    1 + Cardinality({j \in DOMAIN items :
            items[j].count > items[i].count \/ (items[j].count = items[i].count /\ j < i)})

InInsertionOrder(items) == items

\* line 101: sorted(location_counts.items(), key=lambda x: x[1], reverse=True)
SortedByCount(items) ==
    [k \in DOMAIN items |-> items[CHOOSE i \in DOMAIN items : PlaceByCount(items, i) = k]]

\* line 102: the slice [:n]
SliceTo(items, n) ==
    IF n >= 0 THEN SubSeq(items, 1, IF n < Len(items) THEN n ELSE Len(items))
    ELSE SubSeq(items, 1, Len(items) + n)

\* AvitoAnalyzer.get_location_distribution
get_location_distribution(records, n) ==
    IF records = <<>> THEN <<>>
    ELSE LET locations == Locations(records)
             location_counts == LocationCounts(locations, Len(locations))
             sorted_locations == SortedByCount(location_counts)
         IN  SliceTo(sorted_locations, n)

LocationTexts == {<<>>, <<" ">>, <<"A">>, <<"B">>, <<" ", "A", " ">>, <<"C">>}

\* the default of limit (line 75), the limit generate_summary passes (line 225),
\* and smaller ones
LocationLimits == {0, 1, 2, 5, 10}

LocationLists == UNION {[1..n -> LocationTexts] : n \in 0..MaxLocations}

\* the records of a sequence of locations: record i has id i
RecordsAt(locations) ==
    [i \in DOMAIN locations |->
        [id |-> DecText(i), title |-> <<"Lot">>, url |-> <<>>, price |-> FloatZero,
         date |-> <<>>, location |-> locations[i]]]

GetLocationDistribution ==
    /\ pc = "locate"
    /\ result' = get_location_distribution(data, limit)
    /\ pc' = "located"
    /\ UNCHANGED <<crawl_vars, fragment, data, z_threshold, previous_data, csv_file, args, events,
                   url, local_first>>

InitLocations ==
    /\ max_retries = DefaultMaxRetries
    /\ delay = DefaultDelay
    /\ limit \in LocationLimits
    /\ pc = "locate"
    /\ all_items = <<>>
    /\ page_num = 1
    /\ items_count = 0
    /\ html_content = None
    /\ idx = 1
    /\ attempt = 0
    /\ requests = 0
    /\ caught = "none"
    /\ sleeps = <<>>
    /\ crawl_log = <<>>
    /\ pause = 0
    /\ result = <<>>
    /\ fragment = EmptyFragment
    /\ \E locations \in LocationLists : data = RecordsAt(locations)
    /\ z_threshold = FloatZero
    /\ previous_data = <<>>
    /\ csv_file = None
    /\ args = NoArgs
    /\ events = <<>>
    /\ url = <<>>
    /\ local_first = TRUE

NextLocations == GetLocationDistribution

SpecLocations == InitLocations /\ [][NextLocations]_vars

-----------------------------------------------------------------------------
(* The flat-file storage: CSVStorage                                       *)
(*                                                                         *)
(* The file is the sequence of its rows under the header; a row gives each *)
(* column's cell as the text the csv module writes and reads back.  A      *)
(* loaded value is [kind, text, num]: a str with its text, an int or a     *)
(* float with its number, or NaN.                                          *)
(***************************************************************************)

MaxSaved == 2

\* line 93
required_fields == {"id", "title", "price", "date", "location", "url"}

\* str(x), for a number below 10^16
PyStr(x) ==
    IF x.inf THEN <<"inf">>
    ELSE IF x.py = "int" THEN (IF x.whole = <<>> THEN <<"0">> ELSE x.whole)
    ELSE (IF x.whole = <<>> THEN <<"0">> ELSE x.whole) \o <<".">>
            \o (IF x.frac = <<>> THEN <<"0">> ELSE x.frac)

\* str.replace(old, new), for single characters
Replaced(t, old, new) == [i \in DOMAIN t |-> IF t[i] = old THEN new ELSE t[i]]

\* line 103: str(item[field]).replace('.', ','); the price of a record is an
\* int or a float
PriceCell(price) == Replaced(PyStr(price), ".", ",")

\* lines 98-110
NormalizedItem(item) ==
    [field \in required_fields |->
        IF field \in DOMAIN item
        THEN IF field = "price" THEN PriceCell(item[field]) ELSE item[field]
        ELSE IF field = "price" THEN <<"0">> ELSE <<>>]

\* lines 96-117: the rows written under the header
Written(records) == [i \in DOMAIN records |-> NormalizedItem(records[i])]

\* read_csv: the texts taken for a missing value, among them the empty cell
IsNA(cell) == cell \in {<<>>, <<"NA">>, <<"nan">>}

IsPresent(cell) == ~IsNA(cell)

IsIntText(cell) == cell # <<>> /\ \A i \in DOMAIN cell : IsDecimal(cell[i])

IsFloatText(cell) == cell = <<"inf">> \/ PyFloat(cell).ok

\* read_csv: the type of a column, inferred from all its cells
ColumnKind(cells) ==
    LET present == SelectSeq(cells, IsPresent)
    IN  IF \A i \in DOMAIN present : IsIntText(present[i])
        THEN IF present = cells /\ cells # <<>> THEN "int" ELSE "float"
        ELSE IF \A i \in DOMAIN present : IsFloatText(present[i]) THEN "float"
        ELSE "object"

NaN == [kind |-> "nan", text |-> <<>>, num |-> IntZero]

\* read_csv: the value of a cell in a column of a type
CellValue(cell, kind) ==
    IF IsNA(cell) THEN NaN
    ELSE IF kind = "int"
    THEN [kind |-> "int", text |-> <<>>,
          num |-> [py |-> "int", whole |-> StripLeadingZeros(cell), frac |-> <<>>,
                   inf |-> FALSE]]
    ELSE IF kind = "float"
    THEN [kind |-> "float", text |-> <<>>,
          num |-> IF cell = <<"inf">>
                  THEN [py |-> "float", whole |-> <<>>, frac |-> <<>>, inf |-> TRUE]
                  ELSE PyFloat(cell).val]
    ELSE [kind |-> "str", text |-> cell, num |-> IntZero]

\* lines 161-164: pd.read_csv(filepath).to_dict('records')
ReadCsv(rows) ==
    [i \in DOMAIN rows |->
        [field \in required_fields |->
            CellValue(rows[i][field],
                      ColumnKind([k \in DOMAIN rows |-> rows[k][field]]))]]

\* CSVStorage.load_data: no record when the file does not exist
load_data(file) == IF file = None THEN <<>> ELSE ReadCsv(file[1])

StoredRecords ==
    { [id |-> <<"1", "0", "3", "8">>, title |-> <<"Lot">>,
       url |-> <<"https://www.avito.ru", "/item/", "1", "0", "3", "8">>,
       price |-> Float(<<"1", "5", "0", "0">>, <<>>), date |-> <<>>,
       location |-> <<"Moskva">>],
      [id |-> <<"a", "7">>, title |-> <<"Stol">>,
       url |-> <<"https://www.avito.ru", "/stol_">>,
       price |-> IntZero, date |-> <<"2", " ", "dnya", " ", "nazad">>,
       location |-> <<"Tula">>],
      [id |-> <<"b", "9">>, title |-> <<"Stul", ",", " ", "novyj">>,
       url |-> <<"https://www.avito.ru", "/stul_">>,
       price |-> Float(<<"1", "9", "9", "9">>, <<"9", "9">>),
       date |-> <<"vchera">>, location |-> <<"Ne", " ", "ukazano">>],
      ErrorRecord(<<"KeyError">>) }

RecordSets == UNION {[1..n -> StoredRecords] : n \in 0..MaxSaved}

\* CSVStorage.save_data (lines 85-131): no data, the file written, or an
\* exception of the file system caught
SaveData ==
    /\ pc = "save"
    /\ \E written \in BOOLEAN :
          IF data # <<>> /\ written
          THEN csv_file' = Some(Written(data)) /\ result' = TRUE
          ELSE csv_file' = csv_file /\ result' = FALSE
    /\ pc' = "saved"
    /\ UNCHANGED <<crawl_vars, fragment, data, z_threshold, previous_data, args, events,
                   url, local_first>>

\* CSVStorage.load_data (lines 153-170)
LoadData ==
    /\ pc = "saved"
    /\ result' = load_data(csv_file)
    /\ pc' = "loaded"
    /\ UNCHANGED <<crawl_vars, fragment, data, z_threshold, previous_data, csv_file, args,
                   events, url, local_first>>

InitStorage ==
    /\ max_retries = DefaultMaxRetries
    /\ delay = DefaultDelay
    /\ limit = DefaultLimit
    /\ pc = "save"
    /\ all_items = <<>>
    /\ page_num = 1
    /\ items_count = 0
    /\ html_content = None
    /\ idx = 1
    /\ attempt = 0
    /\ requests = 0
    /\ caught = "none"
    /\ sleeps = <<>>
    /\ crawl_log = <<>>
    /\ pause = 0
    /\ result = <<>>
    /\ fragment = EmptyFragment
    /\ data \in RecordSets
    /\ z_threshold = FloatZero
    /\ previous_data = <<>>
    /\ csv_file = None
    /\ args = NoArgs
    /\ events = <<>>
    /\ url = <<>>
    /\ local_first = TRUE

NextStorage ==
    \/ SaveData
    \/ LoadData

SpecStorage == InitStorage /\ [][NextStorage]_vars

-----------------------------------------------------------------------------
(* The command-line entry point: main                                      *)
(*                                                                         *)
(* args.url tells whether --url was given, args.compare whether --compare  *)
(* names a file; csv_file is that file.  The run's events are "fetch" (the *)
(* crawl is started), "summary" (the summary is printed), "save" (the data *)
(* are saved) and "save_failed".  result is the exit status; an exception  *)
(* that leaves main ends the interpreter with status 1.                    *)
(***************************************************************************)

\* main.py:96: float(item['price']) if item['price'] else 0
NormalizedPrice(price) ==
    IF IsZero(price) THEN IntZero ELSE [price EXCEPT !.py = "float"]

\* main.py:83-98
Normalized(records) ==
    [i \in DOMAIN records |-> [records[i] EXCEPT !.price = NormalizedPrice(@)]]

\* analyzer.py:41: p > 0 raises TypeError on a str
ComparisonRaises(value) == value.kind = "str"

\* analyzer.py:38-41, reached from generate_summary through
\* compare_with_previous (lines 232-233, 168) when previous_data is not empty:
\* the comprehension raises on the first price that is a str
StatisticsRaise(previous) ==
    \E i \in DOMAIN previous : ComparisonRaises(previous[i].price)

\* main.py:59-62
CheckUrl ==
    /\ pc = "main"
    /\ IF args.url THEN pc' = "crawl" /\ result' = result
       ELSE pc' = "exited" /\ result' = 1
    /\ UNCHANGED <<crawl_vars, fragment, data, z_threshold, previous_data, csv_file, args,
                   events, url, local_first>>

\* main.py:72: what parse_search_page returns
Crawl ==
    /\ pc = "crawl"
    /\ data' \in RecordSets
    /\ events' = Append(events, "fetch")
    /\ pc' = "crawled"
    /\ UNCHANGED <<crawl_vars, result, fragment, z_threshold, previous_data, csv_file,
                   args, url, local_first>>

\* main.py:74-98
CheckData ==
    /\ pc = "crawled"
    /\ IF data = <<>> THEN pc' = "exited" /\ result' = 1 /\ data' = data
       ELSE pc' = "load_previous" /\ result' = result /\ data' = Normalized(data)
    /\ UNCHANGED <<crawl_vars, fragment, z_threshold, previous_data, csv_file, args,
                   events, url, local_first>>

\* main.py:104-108 (args.output is csv)
LoadPrevious ==
    /\ pc = "load_previous"
    /\ previous_data' = IF args.compare THEN load_data(csv_file) ELSE <<>>
    /\ pc' = "summary"
    /\ UNCHANGED <<crawl_vars, result, fragment, data, z_threshold, csv_file, args,
                   events, url, local_first>>

\* main.py:111-114
PrintSummary ==
    /\ pc = "summary"
    /\ IF previous_data # <<>> /\ StatisticsRaise(previous_data)
       THEN pc' = "raised" /\ result' = 1 /\ caught' = "TypeError" /\ events' = events
       ELSE /\ pc' = "save"
            /\ events' = Append(events, "summary")
            /\ UNCHANGED <<result, caught>>
    /\ UNCHANGED <<max_retries, delay, limit, all_items, page_num, items_count,
                   html_content, idx, attempt, requests, sleeps, crawl_log, pause,
                   fragment, data, z_threshold, previous_data, csv_file, args,
                   url, local_first>>

\* main.py:127-135
Save ==
    /\ pc = "save"
    /\ \E success \in BOOLEAN :
          IF success THEN result' = 0 /\ events' = Append(events, "save")
          ELSE result' = 1 /\ events' = Append(events, "save_failed")
    /\ pc' = "exited"
    /\ UNCHANGED <<crawl_vars, fragment, data, z_threshold, previous_data, csv_file, args,
                   url, local_first>>

\* the files --compare can name: none that exists, or one an earlier run saved
CompareFiles == {None} \cup {Some(Written(Normalized(records))) : records \in RecordSets \ {<<>>}}

InitMain ==
    /\ max_retries = DefaultMaxRetries
    /\ delay = DefaultDelay
    /\ limit = DefaultLimit
    /\ pc = "main"
    /\ all_items = <<>>
    /\ page_num = 1
    /\ items_count = 0
    /\ html_content = None
    /\ idx = 1
    /\ attempt = 0
    /\ requests = 0
    /\ caught = "none"
    /\ sleeps = <<>>
    /\ crawl_log = <<>>
    /\ pause = 0
    /\ result = 0
    /\ fragment = EmptyFragment
    /\ data = <<>>
    /\ z_threshold = FloatZero
    /\ previous_data = <<>>
    /\ args \in [url : BOOLEAN, compare : BOOLEAN]
    /\ csv_file \in (IF args.compare THEN CompareFiles ELSE {None})
    /\ events = <<>>
    /\ url = <<>>
    /\ local_first = TRUE

NextMain ==
    \/ CheckUrl
    \/ Crawl
    \/ CheckData
    \/ LoadPrevious
    \/ PrintSummary
    \/ Save

SpecMain == InitMain /\ [][NextMain]_vars

-----------------------------------------------------------------------------
(* The search URL: parse_search_page, lines 223-236.  A URL is a sequence of *)
(* tokens; "?" and "&" are tokens of their own and so is "localPriority=1", *)
(* so that the parameter localPriority=10 is <<"localPriority=1", "0">> and *)
(* Python's substring tests are tests on runs of tokens.                    *)

MaxPages == 3

\* part in text
HasPart(text, part) ==
    \E k \in 0..(Len(text) - Len(part)) : SubSeq(text, k + 1, k + Len(part)) = part

\* lines 224-227
LocalFirstUrl(u, first) ==
    IF first /\ HasPart(u, <<"?">>) /\ ~HasPart(u, <<"&", "localPriority=1">>)
    THEN u \o <<"&", "localPriority=1">>
    ELSE IF first /\ ~HasPart(u, <<"?">>)
    THEN u \o <<"?", "localPriority=1">>
    ELSE u

\* line 236
page_url(u, n) ==
    IF HasPart(u, <<"?">>) THEN u \o <<"&", "p=", ToString(n)>>
    ELSE u \o <<"?", "p=", ToString(n)>>

SearchPath == <<"https://www.avito.ru/moskva/telefony">>

Urls ==
    { SearchPath,
      SearchPath \o <<"?">>,
      SearchPath \o <<"?", "q=iphone">>,
      SearchPath \o <<"?", "q=iphone", "&", "localPriority=1">>,
      SearchPath \o <<"?", "q=iphone", "&", "localPriority=1", "&", "s=104">>,
      SearchPath \o <<"?", "localPriority=1">>,
      SearchPath \o <<"?", "localPriority=1", "&", "q=iphone">>,
      SearchPath \o <<"?", "q=iphone", "&", "localPriority=1", "0">>,
      SearchPath \o <<"?", "q=iphone", "&", "x", "localPriority=1">> }

\* lines 223-231: the parameter is added and the loop is entered
PrepareUrl ==
    /\ pc = "prepare_url"
    /\ url' = LocalFirstUrl(url, local_first)
    /\ page_num' = 1
    /\ pc' = "request_page"
    /\ UNCHANGED <<max_retries, delay, limit, all_items, items_count, html_content, idx,
                   attempt, requests, caught, sleeps, crawl_log, pause, result, fragment,
                   data, z_threshold, previous_data, csv_file, args, events, local_first>>

\* lines 235-272: one turn of the loop; the body of the page decides whether
\* another page follows
RequestPage ==
    /\ pc = "request_page"
    /\ events' = Append(events, page_url(url, page_num))
    /\ \E more \in BOOLEAN :
          IF more /\ page_num < MaxPages
          THEN page_num' = page_num + 1 /\ pc' = "request_page"
          ELSE page_num' = page_num /\ pc' = "pages_requested"
    /\ UNCHANGED <<max_retries, delay, limit, all_items, items_count, html_content, idx,
                   attempt, requests, caught, sleeps, crawl_log, pause, result, fragment,
                   data, z_threshold, previous_data, csv_file, args, url, local_first>>

InitUrl ==
    /\ max_retries = DefaultMaxRetries
    /\ delay = DefaultDelay
    /\ limit = DefaultLimit
    /\ pc = "prepare_url"
    /\ all_items = <<>>
    /\ page_num = 1
    /\ items_count = 0
    /\ html_content = None
    /\ idx = 1
    /\ attempt = 0
    /\ requests = 0
    /\ caught = "none"
    /\ sleeps = <<>>
    /\ crawl_log = <<>>
    /\ pause = 0
    /\ result = <<>>
    /\ fragment = EmptyFragment
    /\ data = <<>>
    /\ z_threshold = FloatZero
    /\ previous_data = <<>>
    /\ csv_file = None
    /\ args = NoArgs
    /\ events = <<>>
    /\ url \in Urls
    /\ local_first \in BOOLEAN

NextUrl ==
    \/ PrepareUrl
    \/ RequestPage

SpecUrl == InitUrl /\ [][NextUrl]_vars

-----------------------------------------------------------------------------
(* Properties of the crawl *)

Min(a, b) == IF a < b THEN a ELSE b

Max(a, b) == IF a > b THEN a ELSE b

CeilDiv(a, b) == (a + b - 1) \div b

IsPage(e) == e.kind \in {"plain", "faulty"}

\* the records the page of log entry e contributes: one per fragment, in page
\* order, up to the limit
PageRecords(e) ==
    IF IsPage(e)
    THEN [i \in 1..Min(e.n, limit - e.at) |-> ParseItem(Listing(e.page, i, e.kind))]
    ELSE <<>>

RECURSIVE Collected(_)
Collected(log) ==
    IF log = <<>> THEN <<>>
    ELSE Collected(SubSeq(log, 1, Len(log) - 1)) \o PageRecords(log[Len(log)])

LastEntry == crawl_log[Len(crawl_log)]

\* every fetch so far succeeded and returned a full page
SourceHasMore == \A i \in DOMAIN crawl_log : IsPage(crawl_log[i]) /\ crawl_log[i].n >= FullPage

\* C1: when the source has more listings than a positive limit, the call returns
\* exactly limit records, stopping inside the page on which the count reaches
\* the limit, and no page is requested once the limit is reached.
C1_StopsAtLimit ==
    (pc = "done" /\ limit > 0 /\ SourceHasMore) =>
        /\ Len(result) = limit
        /\ result = Collected(crawl_log)
        /\ \A i \in DOMAIN crawl_log : crawl_log[i].at < limit
        /\ LastEntry.at + LastEntry.n >= limit

C1_Witness ==
    /\ pc = "done"
    /\ limit = FullPage + 1
    /\ SourceHasMore
    /\ Len(crawl_log) = 2
    /\ LastEntry.n > 1
    /\ Len(result) = limit

\* Every page requested after the first found the count at least FullPage higher
\* than the page before, and at most ceil(limit / FullPage) pages are requested.
PagesBounded ==
    /\ Len(crawl_log) <= CeilDiv(Max(limit, 0), FullPage)
    /\ \A i \in 2..Len(crawl_log) : crawl_log[i].at >= crawl_log[i - 1].at + FullPage

\* The steps one turn of the page loop takes outside the for loop are fewer than this.
TurnSteps == 2 * max_retries + 10

\* How far the call is from its end: the records still wanted, each worth a
\* turn of the page loop, plus the steps left in the current turn.
Measure ==
    Max(limit - items_count, 0) * TurnSteps +
        CASE pc = "done" -> 0
          [] pc = "return" -> 1
          [] pc = "for" /\ idx = 1 -> 2
          [] pc = "fetched" -> 3
          [] pc = "get" -> TurnSteps - 5 - 2 * attempt
          [] pc = "sleep" -> TurnSteps - 6 - 2 * attempt
          [] pc = "while" -> TurnSteps - 4
          [] pc = "pause" -> TurnSteps - 3
          [] pc = "after_for" -> TurnSteps - 2
          [] pc = "for" /\ idx > 1 -> TurnSteps - 1

\* Some action is enabled.  ForStep has no guard but pc = "for": each of its
\* branches defines the next state.
CanStep ==
    \/ pc = "for"
    \/ ENABLED (WhileTest \/ GetOk \/ GetFails \/ Sleep \/ GiveUp \/ CheckContent
                   \/ AfterFor \/ Pause \/ Return)

\* C2: the call terminates whatever the source does: every turn of the page loop
\* leaves the loop or adds at least FullPage records, at most ceil(limit / FullPage)
\* pages are requested, and every step brings the call nearer to its return
\* (a natural number decreases) and leaves it a next step until it has
\* returned.
C2_Terminates ==
    /\ [](PagesBounded /\ Measure >= 0 /\ (pc = "done" \/ CanStep))
    /\ [][Measure' < Measure]_vars

C2_Witness ==
    /\ pc = "done"
    /\ Len(crawl_log) = 3
    /\ crawl_log[2].at = FullPage
    /\ crawl_log[3].at = 2 * FullPage
    /\ LastEntry.kind = "none"

\* C3: when the fetch of page n fails, no further page is requested and the call
\* returns, as a normal result, exactly the records of pages 1..n-1.
C3_PartialOnFailure ==
    /\ pc # "raised"
    /\ \A i \in DOMAIN crawl_log : crawl_log[i].kind = "none" => i = Len(crawl_log)
    /\ (pc = "done" /\ crawl_log # <<>> /\ LastEntry.kind = "none") =>
          /\ result = Collected(SubSeq(crawl_log, 1, Len(crawl_log) - 1))
          /\ Len(result) = LastEntry.at

C3_Witness ==
    /\ pc = "done"
    /\ Len(crawl_log) = 2
    /\ LastEntry.kind = "none"
    /\ Len(result) = MaxPageLen
    /\ "error" \in DOMAIN result[1]

\* C4: a call of _make_request in which every attempt fails makes exactly
\* max_retries attempts, sleeping between them only, and returns None; no
\* exception leaves the call.
C4_FailureSignal ==
    /\ pc # "raised"
    /\ (pc = "fetched" /\ html_content = None) =>
          /\ requests = max_retries
          /\ Len(sleeps) = Max(max_retries - 1, 0)
    /\ (pc \in {"get", "sleep"}) => requests <= max_retries

C4_Witness ==
    /\ pc = "fetched"
    /\ html_content = None
    /\ max_retries = 3
    /\ requests = 3
    /\ caught = "Timeout"

\* C5: the wait after failed attempt k is delay * k seconds plus a jitter of less
\* than a second, and attempt k + 1 is issued only after k waits.
C5_LinearBackoff ==
    /\ \A k \in DOMAIN sleeps :
          sleeps[k] - delay * k * TicksPerSec \in 0..(TicksPerSec - 1)
    /\ requests <= Len(sleeps) + 1
    /\ pc = "sleep" => requests = Len(sleeps) + 1

C5_Witness ==
    /\ pc = "get"
    /\ delay = 2
    /\ Len(sleeps) = 3
    /\ sleeps[3] = 3 * delay * TicksPerSec + 1
    /\ requests = 3

\* C6: a fetched page with no fragment, or with fewer than FullPage fragments,
\* is the last page requested; the call then returns the records collected,
\* those of the short page (up to the limit) included.
C6_ShortPageIsLast ==
    /\ \A i \in DOMAIN crawl_log :
          (IsPage(crawl_log[i]) /\ crawl_log[i].n < FullPage) => i = Len(crawl_log)
    /\ (pc = "done" /\ crawl_log # <<>> /\ IsPage(LastEntry) /\ LastEntry.n < FullPage) =>
          /\ result = Collected(crawl_log)
          /\ Len(result) = LastEntry.at + Min(LastEntry.n, limit - LastEntry.at)

C6_Witness ==
    /\ pc = "done"
    /\ limit = MaxLimit
    /\ Len(crawl_log) = 2
    /\ LastEntry.n = FullPage - 1
    /\ Len(result) = 2 * FullPage - 1

C6_WitnessEmpty ==
    /\ pc = "done"
    /\ Len(crawl_log) = 2
    /\ IsPage(LastEntry)
    /\ LastEntry.n = 0
    /\ Len(result) = FullPage

\* C20: pagination is sequential.  The k-th page request is for page k; it is
\* issued when every fragment of page k - 1 has been extracted and, for k > 1,
\* right after a pause of delay seconds plus a jitter in [0, 2); no pause is
\* taken after the last page; and the call returns the records of the pages in
\* page order and in-page order.
C20_Sequential ==
    /\ \A k \in DOMAIN crawl_log :
          /\ crawl_log[k].page = k
          /\ k > 1 => /\ IsPage(crawl_log[k - 1])
                      /\ crawl_log[k].at = crawl_log[k - 1].at + crawl_log[k - 1].n
    /\ page_num \in {Len(crawl_log), Len(crawl_log) + 1}
    /\ Len(all_items) = items_count
    /\ pc = "while" =>
          /\ page_num = Len(crawl_log) + 1
          /\ IF page_num = 1 THEN pause = 0
             ELSE /\ pause >= delay * TicksPerSec
                  /\ pause < (delay + 2) * TicksPerSec
                  /\ ~LimitReached(items_count)
                  /\ items_count = LastEntry.at + LastEntry.n
    /\ pc \in {"return", "done"} => pause = 0
    /\ pc = "done" => result = Collected(crawl_log)

C20_Witness ==
    /\ pc = "done"
    /\ Len(crawl_log) = 3
    /\ delay = MaxDelay
    /\ Len(result) = 2 * FullPage + 1
    /\ result[FullPage + 1].id = DecText(2001)

\* C21: one call of _make_request issues at most max_retries requests; the
\* first response that succeeds ends it at once with the content of that
\* response, no attempt and no wait after it; no wait follows the last failed
\* attempt; and with max_retries = 0 it issues no request and returns None.
C21_RequestBudget ==
    /\ requests <= max_retries
    /\ Len(sleeps) <= Max(max_retries - 1, 0)
    /\ pc = "get" => requests = attempt /\ Len(sleeps) = Min(attempt, Max(max_retries - 1, 0))
    /\ pc = "sleep" => requests = attempt + 1 /\ Len(sleeps) = attempt
    /\ (pc = "fetched" /\ html_content # None) =>
          /\ html_content[1] \in Bodies
          /\ requests = attempt + 1
          /\ Len(sleeps) = attempt
    /\ (pc = "fetched" /\ html_content = None) =>
          /\ requests = max_retries
          /\ Len(sleeps) = Max(max_retries - 1, 0)
    /\ (pc = "fetched" /\ max_retries = 0) => requests = 0 /\ html_content = None

C21_Witness ==
    /\ pc = "fetched"
    /\ html_content # None
    /\ max_retries = MaxRetries
    /\ requests = 3
    /\ Len(sleeps) = 2

\* C22: in every state of parse_search_page the records collected are as many
\* as the running count and at most max(limit, 0); with limit <= 0 no page is
\* requested and the result is empty; a response that succeeds with an empty
\* body takes the branch of a failed fetch, not that of a page without
\* listings, and the crawl stops with the records collected so far.
C22_CountAndEmptyBody ==
    /\ Len(all_items) = items_count
    /\ items_count <= Max(limit, 0)
    /\ limit <= 0 => /\ crawl_log = <<>>
                     /\ requests = 0
                     /\ pc = "done" => result = <<>>
    /\ (crawl_log # <<>> /\ LastEntry.kind \in {"empty", "none"}) =>
          /\ pc \in {"return", "done"}
          /\ events = <<"no_content">>
          /\ items_count = LastEntry.at
          /\ all_items = Collected(SubSeq(crawl_log, 1, Len(crawl_log) - 1))
          /\ pc = "done" => result = all_items
    /\ events = <<"no_items">> =>
          /\ IsPage(LastEntry) /\ LastEntry.n = 0
          /\ pc \in {"return", "done"}

C22_Witness ==
    /\ pc = "done"
    /\ Len(crawl_log) = 2
    /\ LastEntry.kind = "empty"
    /\ events = <<"no_content">>
    /\ Len(result) = FullPage

-----------------------------------------------------------------------------
(* Properties of the extractor *)

RequiredFields == {"id", "title", "url", "price", "date", "location"}

\* the number of records the page of log entry e contributes
TakenFrom(e) == IF IsPage(e) THEN Min(e.n, limit - e.at) ELSE 0

RECURSIVE TakenIn(_)
TakenIn(log) ==
    IF log = <<>> THEN 0
    ELSE TakenIn(SubSeq(log, 1, Len(log) - 1)) + TakenFrom(log[Len(log)])

\* the fragment the k-th collected record was extracted from
SourceOf(k) ==
    LET e == crawl_log[CHOOSE i \in DOMAIN crawl_log :
                  crawl_log[i].at < k /\ k <= crawl_log[i].at + TakenFrom(crawl_log[i])]
    IN  Listing(e.page, k - e.at, e.kind)

\* C7: _parse_item returns a record for every fragment and never raises; a
\* fragment on which extraction fails yields the record of empty texts, price 0
\* and the failure description in error, no other record has an error field, and
\* the fragments after a failing one are extracted and appended all the same.
C7_ExtractorTotal ==
    /\ pc # "raised"
    /\ pc = "done" =>
          /\ Len(result) = TakenIn(crawl_log)
          /\ \A k \in DOMAIN result :
                IF SourceOf(k).fault # None
                THEN result[k] = [id |-> <<>>, title |-> <<>>, url |-> <<>>,
                                  price |-> IntZero, date |-> <<>>, location |-> <<>>,
                                  error |-> SourceOf(k).fault[1]]
                ELSE /\ DOMAIN result[k] = RequiredFields
                     /\ result[k].id = SourceOf(k).attrs.data_item_id

C7_Witness ==
    /\ pc = "done"
    /\ Len(result) = FullPage + 1
    /\ "error" \in DOMAIN result[1]
    /\ "error" \notin DOMAIN result[2]
    /\ "error" \in DOMAIN result[FullPage + 1]

\* C8: every record leaving the extractor has the six required fields, and its
\* price is a finite number.
C8_PriceFinite ==
    pc = "parsed" => RequiredFields \subseteq DOMAIN result /\ ~result.price.inf

\* what the selector tier yields: 0 when no selector matches or the text of the
\* element does not parse to a positive number
SelectorYield(f) ==
    IF PriceElement(f) = None THEN IntZero ELSE SelectorPrice(PriceElement(f)[1])

Tried(tier) == \E k \in DOMAIN events : events[k] = tier

\* C17: the price cascade tries the selectors, then the markup patterns, then
\* the visible text, each tier if and only if every earlier one yielded nothing
\* (so the markup patterns are tried after an element whose text gives no
\* positive number), and a positive price of an earlier tier is the record's
\* price.
C17_CascadeOrder ==
    (pc = "parsed" /\ fragment.fault = None) =>
        /\ events[1] = "selector"
        /\ \A k, m \in DOMAIN events :
              (events[k] = "text" /\ events[m] = "markup") => m < k
        /\ Tried("markup") <=> IsZero(SelectorYield(fragment))
        /\ Tried("text") <=>
              IsZero(SelectorYield(fragment)) /\ IsZero(MarkupPrice(fragment))
        /\ ~IsZero(SelectorYield(fragment)) => result.price = SelectorYield(fragment)
        /\ (IsZero(SelectorYield(fragment)) /\ ~IsZero(MarkupPrice(fragment)))
              => result.price = MarkupPrice(fragment)

HasMarker(t) == Contains(Lower(t), DeliveryMarker)

\* the elements of the fragment matching [class*="location"] whose text is
\* free of the delivery marker
CleanAlternates(f) ==
    { i \in DOMAIN f.children :
        "[class*=location]" \in f.children[i].sel /\ ~HasMarker(f.children[i].text) }

PrimaryLocation(f) ==
    FirstSome(<<select_one(f, "[data-marker=item-location]"), select_one(f, "[class*=geo]")>>)

\* C19: a record of the normal path never has the delivery marker in its
\* location; when the primary location text has it, the location is the text
\* of a marker-free [class*="location"] element if the fragment has one and
\* the placeholder otherwise; without a location element it is the placeholder.
C19_DeliveryFiltered ==
    (pc = "parsed" /\ fragment.fault = None) =>
        /\ ~HasMarker(result.location)
        /\ PrimaryLocation(fragment) = None => result.location = NotSpecified
        /\ (PrimaryLocation(fragment) # None /\ HasMarker(PrimaryLocation(fragment)[1].text)) =>
              IF CleanAlternates(fragment) # {}
              THEN \E i \in CleanAlternates(fragment) :
                      result.location = Strip(fragment.children[i].text)
              ELSE result.location = NotSpecified

-----------------------------------------------------------------------------
(* Properties of the analyzer *)

PositivePrices == SelectSeq(Prices(data), Positive)

ExamplePrices == <<FromNat(100), FromNat(100), FromNat(100), FromNat(100), FromNat(10000)>>

\* the positive-price records whose z-score, taken with the mean and the
\* population standard deviation that get_price_statistics reports, exceeds
\* the threshold
PopulationOutliers ==
    LET stats == get_price_statistics(data)
    IN  Flagged(SelectSeq(data, HasPositivePrice), stats.avg_price, stats.std_price,
                z_threshold)

\* C9: on the prices 100, 100, 100, 100, 10000 with threshold 2.0 find_outliers
\* returns the record of price 10000 alone, and in general the positive-price
\* records more than z_threshold population standard deviations from the mean.
C9_Outliers ==
    pc = "outliers_done" =>
        /\ (Prices(data) = ExamplePrices /\ z_threshold = FromNat(2)) => result = <<data[5]>>
        /\ (PositivePrices # <<>> /\ get_price_statistics(data).std_price # FloatZero)
              => result = PopulationOutliers

\* C10: count is the number of records, and when some price is positive the
\* mean and the median lie between min_price and max_price, the least and the
\* greatest positive price.
C10_StatsOrdered ==
    (pc = "stats_done" /\ data # <<>>) =>
        /\ result.count = Len(data)
        /\ PositivePrices # <<>> =>
              /\ FLessEq(result.min_price, result.avg_price)
              /\ FLessEq(result.avg_price, result.max_price)
              /\ FLessEq(result.min_price, result.median_price)
              /\ FLessEq(result.median_price, result.max_price)
              /\ Positive(result.min_price)
              /\ \E i \in DOMAIN data : data[i].price = result.min_price
              /\ \E i \in DOMAIN data : data[i].price = result.max_price
              /\ \A i \in DOMAIN data :
                    Positive(data[i].price) =>
                        /\ FLessEq(result.min_price, data[i].price)
                        /\ FLessEq(data[i].price, result.max_price)

\* the number of records of data whose price is not 0 (the model's prices are
\* never negative)
PositiveCount == Cardinality({i \in DOMAIN data : data[i].price # FloatZero})

AllZero(stats) ==
    /\ stats.avg_price = FloatZero
    /\ stats.median_price = FloatZero
    /\ stats.min_price = FloatZero
    /\ stats.max_price = FloatZero
    /\ stats.std_price = FloatZero

\* C11: get_price_statistics returns count 0 and all statistics 0 for the empty
\* input; count = zero_prices_count = len(records) and all statistics 0 when no
\* price is positive; and otherwise zero_prices_count = len(records) minus the
\* number of positive prices, so count = positive count + zero_prices_count
\* for every input that is not empty.
C11_DegenerateStats ==
    pc = "stats_done" =>
        /\ data = <<>> => result.count = 0 /\ AllZero(result)
        /\ data # <<>> =>
              /\ result.count = Len(data)
              /\ result.zero_prices_count = Len(data) - PositiveCount
              /\ result.count = PositiveCount + result.zero_prices_count
              /\ PositiveCount = 0 => AllZero(result)

C11_Witness ==
    /\ pc = "stats_done"
    /\ Len(data) = 3
    /\ PositiveCount = 0
    /\ result.zero_prices_count = 3
    /\ AllZero(result)

\* no spread can be defined: no record, no positive price, one positive price,
\* or positive prices that are all equal
NoSpread ==
    \A i, j \in DOMAIN data :
        (data[i].price # FloatZero /\ data[j].price # FloatZero)
            => data[i].price = data[j].price

\* C16: find_outliers returns the empty list, for every threshold, when the
\* input is empty, when no price or one price only is positive, and when all
\* positive prices are equal.
C16_NoSpreadNoOutliers ==
    (pc = "outliers_done" /\ NoSpread) => result = <<>>

\* (current - previous) / previous * 100
PercentChange(current, previous) ==
    [neg |-> FLess(current, previous),
     abs |-> FMul(FDiv(FAbsDiff(current, previous), previous), FromNat(100))]

Difference(current, previous) ==
    [neg |-> FLess(current, previous), abs |-> FAbsDiff(current, previous)]

NoChange == [neg |-> FALSE, abs |-> FloatZero]

\* C12: compare_with_previous never divides by 0: on two record sets that are
\* not empty each percentage is 0 when the previous value is not positive and
\* (current - previous) / previous * 100 otherwise, count_change,
\* min_price_change and max_price_change are the differences current -
\* previous, and when a record set is empty the result is the marker
\* comparison_available = FALSE alone.
C12_CompareTotal ==
    pc = "compared" =>
        LET current == get_price_statistics(data)
            previous == get_price_statistics(previous_data)
        IN  /\ "raised" \notin DOMAIN result
            /\ (data = <<>> \/ previous_data = <<>>) =>
                  result = [comparison_available |-> FALSE]
            /\ (data # <<>> /\ previous_data # <<>>) =>
                  /\ result.comparison_available
                  /\ result.avg_price_change_percent =
                        IF previous.avg_price = FloatZero THEN NoChange
                        ELSE PercentChange(current.avg_price, previous.avg_price)
                  /\ result.median_price_change_percent =
                        IF previous.median_price = FloatZero THEN NoChange
                        ELSE PercentChange(current.median_price, previous.median_price)
                  /\ result.count_change = Len(data) - Len(previous_data)
                  /\ result.min_price_change =
                        Difference(current.min_price, previous.min_price)
                  /\ result.max_price_change =
                        Difference(current.max_price, previous.max_price)

C12_Witness ==
    /\ pc = "compared"
    /\ Len(data) = 2
    /\ Len(previous_data) = 1
    /\ previous_data[1].price = FloatZero
    /\ data[1].price # FloatZero
    /\ result.comparison_available
    /\ result.avg_price_change_percent = NoChange
    /\ result.count_change = 1

-----------------------------------------------------------------------------
(* Properties of the location distribution *)

\* the number of records of data at a location
Occurrences(loc) == Cardinality({i \in DOMAIN data : Strip(data[i].location) = loc})

\* the first record of data at a location
FirstOccurrence(loc) ==
    CHOOSE i \in DOMAIN data :
        /\ Strip(data[i].location) = loc
        /\ \A j \in 1..(i - 1) : Strip(data[j].location) # loc

DistinctLocations == {Strip(data[i].location) : i \in DOMAIN data} \ {<<>>}

\* location a is listed before location b: it has more records, or as many and
\* an earlier first record
ListedBefore(a, b) ==
    \/ Occurrences(a) > Occurrences(b)
    \/ Occurrences(a) = Occurrences(b) /\ FirstOccurrence(a) < FirstOccurrence(b)

ResultKeys == {result[k].key : k \in DOMAIN result}

\* C13: get_location_distribution counts the records of each trimmed location
\* that is not empty, lists the locations by falling count, those of equal count
\* in the order of their first records, and keeps the first limit entries; the
\* locations A, A, B and the empty one give A: 2 then B: 1 with limit 10.
C13_LocationDistribution ==
    pc = "located" =>
        /\ \A k \in DOMAIN result :
              /\ result[k].key \in DistinctLocations
              /\ result[k].count = Occurrences(result[k].key)
        /\ \A k, m \in DOMAIN result : k < m => ListedBefore(result[k].key, result[m].key)
        /\ Len(result) = Min(limit, Cardinality(DistinctLocations))
        /\ \A loc \in DistinctLocations \ ResultKeys :
              \A k \in DOMAIN result : ListedBefore(result[k].key, loc)
        /\ ([i \in DOMAIN data |-> data[i].location] = <<<<"A">>, <<"A">>, <<"B">>, <<>>>>
                /\ limit = 10)
              => result = <<[key |-> <<"A">>, count |-> 2], [key |-> <<"B">>, count |-> 1]>>

C13_Witness ==
    /\ pc = "located"
    /\ [i \in DOMAIN data |-> data[i].location] = <<<<"B">>, <<" ", "A", " ">>, <<" ">>, <<"A">>>>
    /\ limit = 1
    /\ result = <<[key |-> <<"A">>, count |-> 2]>>

-----------------------------------------------------------------------------
(* Properties of the storage *)

TextFields == {"id", "title", "date", "location", "url"}

\* a loaded value is the str of a text
IsStr(value, text) == value.kind = "str" /\ value.text = text

\* a loaded value is a number equal to the number x
IsNumber(value, x) ==
    /\ value.kind \in {"int", "float"}
    /\ value.num.whole = x.whole
    /\ value.num.frac = x.frac
    /\ value.num.inf = x.inf

\* C14: a record set that is not empty, saved and loaded back from the same
\* file, comes back with as many records in the same order, each with the saved
\* id, title, date, location and url and with a number equal to the saved
\* price.
C14_RoundTrip ==
    (pc = "loaded" /\ csv_file # None) =>
        /\ Len(result) = Len(data)
        /\ \A i \in DOMAIN data :
              /\ \A field \in TextFields : IsStr(result[i][field], data[i][field])
              /\ IsNumber(result[i].price, data[i].price)

-----------------------------------------------------------------------------
(* Properties of the entry point *)

\* C15: main ends with a status that is not 0 in three cases only: no URL (and
\* then nothing was fetched), no record from the crawl (and then nothing was
\* printed or saved), and a failed save; every other run, a run with a
\* --compare file among them, prints the summary, saves and returns 0.
C15_ExitStatus ==
    /\ pc # "raised"
    /\ pc = "exited" =>
          /\ result # 0 <=>
                \/ ~args.url
                \/ data = <<>>
                \/ events = <<"fetch", "summary", "save_failed">>
          /\ ~args.url => events = <<>>
          /\ (args.url /\ data = <<>>) => events = <<"fetch">>
          /\ result = 0 => events = <<"fetch", "summary", "save">>

-----------------------------------------------------------------------------
(* Properties of the search URL *)

\* the query string of a URL: what follows the first "?"
QueryOf(u) ==
    IF ~HasPart(u, <<"?">>) THEN <<>>
    ELSE LET q == CHOOSE k \in DOMAIN u :
                      u[k] = "?" /\ \A j \in 1..(k - 1) : u[j] # "?"
         IN  SubSeq(u, q + 1, Len(u))

\* the places of the query string where the parameter localPriority=1 stands
LocalPriorityAt(u) ==
    LET query == QueryOf(u)
    IN  { k \in DOMAIN query :
            /\ query[k] = "localPriority=1"
            /\ k = 1 \/ query[k - 1] = "&"
            /\ k = Len(query) \/ query[k + 1] = "&" }

\* C18: with local_first, the URL of every page request has the parameter
\* localPriority=1 exactly once, whatever the search URL given.
C18_LocalPriorityOnce ==
    local_first =>
        \A k \in DOMAIN events :
            pc \in {"request_page", "pages_requested"}
                => Cardinality(LocalPriorityAt(events[k])) = 1

=============================================================================
